---- MODULE Spec2Model ----
(***************************************************************************)
(* State-machine model of the snake game backend (package game, package    *)
(* handlers, package lobby): connection handling, lobby, matchmaking, the  *)
(* per-game countdown / tick loop with collision resolution, and           *)
(* RemovePlayer with the manager lock.                                     *)
(*                                                                         *)
(* Go pointers are modelled as handles: players, channels, games and       *)
(* goroutines are sequences that only grow, a handle is an index, and 0 is *)
(* nil.  gm.Games is the set `table` of game handles, gm.Players is the    *)
(* function `registry` from player id to player handle.                    *)
(***************************************************************************)
EXTENDS Integers, Sequences, FiniteSets, TLC

VARIABLES
    players,    \* heap of models.Player: [id, username, send, ready]
    channels,   \* heap of Player.Send channels: [closed]
    registry,   \* gm.Players: id -> player handle
    lobby,      \* lobby.Service.order restricted to lobby.Service.players
    games,      \* heap of models.Game
    table,      \* gm.Games (game handles present in the map)
    pending,    \* gm.PendingRequests as a set of <<toID, fromID, game>>
    gmWriter,   \* goroutine holding gm.Mutex for writing, 0 if none
    thr,        \* goroutines: connections, StartGame countdowns, game loops
    notices,    \* history: <<player handle, message>> put on a Send queue
    crashed,    \* a send on a closed channel panicked
    left,       \* what the behaviour may still create: [conns, starts], the
                \* games it may hold, the message types notices records
    last,       \* the error event the last step put on a Send queue, if any
    shown       \* history: <<game, Countdown>> of StartGame's game_update

vars == <<players, channels, registry, lobby, games, table, pending,
          gmWriter, thr, notices, crashed, left, last, shown>>

----------------------------------------------------------------------------
(* Program constants                                                       *)

GRID_WIDTH == 40
GRID_HEIGHT == 30
UP == 0
DOWN == 1
LEFT == 2
RIGHT == 3

Dirs == {UP, DOWN, LEFT, RIGHT}

(* Bounds of the model                                                     *)
MaxConns == 2      \* ServeHTTP invocations in a behaviour of Spec
MaxGames == 1      \* games created by SendGameRequest in one behaviour
MaxStarts == 1     \* StartGame goroutines started in one behaviour
MaxTicks == 1      \* ticks of one game loop
PlayConns == 2     \* ServeHTTP invocations in a behaviour of SpecPlay
RebindConns == 2   \* ServeHTTP invocations in a behaviour of SpecRebind
ReadyStarts == 2   \* StartGame goroutines started in a behaviour of SpecReady
ReadyConns == 1    \* ServeHTTP invocations in a behaviour of SpecReady
RematchStarts == 1 \* startRematch goroutines started in a behaviour of SpecRematch
GoneConns == 1     \* ServeHTTP invocations in a behaviour of SpecGone
MatchGames == 2    \* games created by SendGameRequest in a behaviour of SpecMatch
QueueCap == 2      \* capacity of a Send queue (256 in the code)
RaceConns == 1     \* ServeHTTP invocations in a behaviour of SpecRace
MultiConns == 1    \* ServeHTTP invocations in a behaviour of SpecMulti
MultiGames == 2    \* games in gm.Games in a behaviour of SpecMulti

Names == {"bob", "BOB", "eve"}
MoveStrings == {"up", "down", "left", "right", "jump"}

Pos(x, y) == [x |-> x, y |-> y]

(* Candidate cells for rand.Intn in generateFood.                          *)
FoodCells == {Pos(7, 15), Pos(1, 1), Pos(2, 2)}

----------------------------------------------------------------------------
(* Small helpers                                                           *)

Range(s) == {s[i] : i \in 1..Len(s)}

RECURSIVE SeqOfSet(_)
SeqOfSet(S) ==
    IF S = {} THEN <<>>
    ELSE LET x == CHOOSE y \in S : TRUE IN <<x>> \o SeqOfSet(S \ {x})

RemoveAt(s, i) == SubSeq(s, 1, i - 1) \o SubSeq(s, i + 1, Len(s))

\* strings.ToLower on the names of the model
ToLower(n) == IF n = "BOB" THEN "bob" ELSE n

\* strings.EqualFold
EqualFold(a, b) == ToLower(a) = ToLower(b)

\* uuid.New().String(): a fresh identifier
Uuid(n) == "u" \o ToString(n)

----------------------------------------------------------------------------
(* Snake mechanics: gameLoop body, generateFood, checkCollisions           *)

opposites(d) ==
    CASE d = UP -> DOWN
      [] d = DOWN -> UP
      [] d = LEFT -> RIGHT
      [] d = RIGHT -> LEFT

\* the switch in HandlePlayerMove; -1 stands for the default branch
ParseDirection(s) ==
    CASE s = "up" -> UP
      [] s = "down" -> DOWN
      [] s = "left" -> LEFT
      [] s = "right" -> RIGHT
      [] OTHER -> -1

\* new head before wrap-around
RawHead(head, d) ==
    CASE d = UP -> Pos(head.x, head.y - 1)
      [] d = DOWN -> Pos(head.x, head.y + 1)
      [] d = LEFT -> Pos(head.x - 1, head.y)
      [] d = RIGHT -> Pos(head.x + 1, head.y)

Wrap_OffByOne(p) ==
    Pos(IF p.x < 0 THEN GRID_WIDTH
        ELSE IF p.x >= GRID_WIDTH THEN 0 ELSE p.x,
        IF p.y < 0 THEN GRID_HEIGHT
        ELSE IF p.y >= GRID_HEIGHT THEN 0 ELSE p.y)

\* the two if/else-if pairs of gameLoop after the switch
Wrap(p) ==
    Pos(IF p.x < 0 THEN GRID_WIDTH - 1
        ELSE IF p.x >= GRID_WIDTH THEN 0 ELSE p.x,
        IF p.y < 0 THEN GRID_HEIGHT - 1
        ELSE IF p.y >= GRID_HEIGHT THEN 0 ELSE p.y)

NewHead(head, d) == Wrap(RawHead(head, d))

SnakeCells(snakes) == UNION {Range(snakes[i].body) : i \in 1..Len(snakes)}

\* generateFood accepts a cell iff no snake body part is on it
FoodValid(f, snakes) == f \notin SnakeCells(snakes)

RECURSIVE MoveSnakes_AnyCell(_, _, _, _)
MoveSnakes_AnyCell(snakes, food, picks, i) ==
    IF i > Len(snakes) THEN [snakes |-> snakes, food |-> food, ok |-> TRUE]
    ELSE
        LET s == snakes[i]
            nh == NewHead(s.body[1], s.dir)
            grown == <<nh>> \o s.body
            eats == nh = food
            s2 == IF eats
                  THEN [s EXCEPT !.body = grown, !.score = s.score + 1]
                  ELSE [s EXCEPT !.body = SubSeq(grown, 1, Len(grown) - 1)]
            snakes2 == [snakes EXCEPT ![i] = s2]
            food2 == IF eats THEN picks[i] ELSE food
        IN  MoveSnakes_AnyCell(snakes2, food2, picks, i + 1)

RECURSIVE MoveSnakes_KeepScore(_, _, _, _)
MoveSnakes_KeepScore(snakes, food, picks, i) ==
    IF i > Len(snakes) THEN [snakes |-> snakes, food |-> food, ok |-> TRUE]
    ELSE
        LET s == snakes[i]
            nh == NewHead(s.body[1], s.dir)
            grown == <<nh>> \o s.body
            eats == nh = food
            s2 == IF eats
                  THEN [s EXCEPT !.body = grown]
                  ELSE [s EXCEPT !.body = SubSeq(grown, 1, Len(grown) - 1)]
            snakes2 == [snakes EXCEPT ![i] = s2]
            food2 == IF eats THEN picks[i] ELSE food
            rest == MoveSnakes_KeepScore(snakes2, food2, picks, i + 1)
        IN  IF eats /\ ~FoodValid(picks[i], snakes2)
            THEN [snakes |-> snakes2, food |-> food2, ok |-> FALSE]
            ELSE rest

\* One pass of the second loop of gameLoop over snakes i..Len, in order.
\* picks[i] is the cell rand.Intn delivers if snake i eats; ok is FALSE when
\* that cell would be rejected by generateFood.
RECURSIVE MoveSnakes(_, _, _, _)
MoveSnakes(snakes, food, picks, i) ==
    IF i > Len(snakes) THEN [snakes |-> snakes, food |-> food, ok |-> TRUE]
    ELSE
        LET s == snakes[i]
            nh == NewHead(s.body[1], s.dir)
            grown == <<nh>> \o s.body
            eats == nh = food
            s2 == IF eats
                  THEN [s EXCEPT !.body = grown, !.score = s.score + 1]
                  ELSE [s EXCEPT !.body = SubSeq(grown, 1, Len(grown) - 1)]
            snakes2 == [snakes EXCEPT ![i] = s2]
            food2 == IF eats THEN picks[i] ELSE food
            rest == MoveSnakes(snakes2, food2, picks, i + 1)
        IN  IF eats /\ ~FoodValid(picks[i], snakes2)
            THEN [snakes |-> snakes2, food |-> food2, ok |-> FALSE]
            ELSE rest

\* first loop of gameLoop: Direction = NextDir for every snake
PromoteDirs(snakes) ==
    [i \in 1..Len(snakes) |-> [snakes[i] EXCEPT !.dir = snakes[i].next]]

SelfHit(s) == \E j \in 2..Len(s.body) : s.body[j] = s.body[1]

HeadInBody(a, b) == \E j \in 2..Len(b.body) : b.body[j] = a.body[1]

HeadToHeadWinner_Swapped(s1, s2) ==
    IF s1.score > s2.score THEN s2.id
    ELSE IF s2.score > s1.score THEN s1.id
    ELSE "tie"

\* the head-to-head branch of checkCollisions
HeadToHeadWinner(s1, s2) ==
    IF s1.score > s2.score THEN s1.id
    ELSE IF s2.score > s1.score THEN s2.id
    ELSE "tie"

SelfCollisionWinner_Own(snakes, i) == snakes[i].id

\* the self-collision branch of checkCollisions: the other snake wins
SelfCollisionWinner(snakes, i) ==
    IF i = 1 THEN snakes[2].id ELSE snakes[1].id

BodyCollisionWinner_Intruder(s1, s2) ==
    IF HeadInBody(s1, s2) THEN s1.id
    ELSE IF HeadInBody(s2, s1) THEN s2.id
    ELSE ""

\* the two head-to-body loops of checkCollisions
BodyCollisionWinner(s1, s2) ==
    IF HeadInBody(s1, s2) THEN s2.id
    ELSE IF HeadInBody(s2, s1) THEN s1.id
    ELSE ""

\* checkCollisions for a two-snake game; "" is no collision
checkCollisions(snakes) ==
    IF \E i \in 1..Len(snakes) : SelfHit(snakes[i])
    THEN LET i == CHOOSE k \in 1..Len(snakes) :
                     SelfHit(snakes[k]) /\ \A m \in 1..(k - 1) : ~SelfHit(snakes[m])
         IN  SelfCollisionWinner(snakes, i)
    ELSE IF snakes[1].body[1] = snakes[2].body[1]
    THEN HeadToHeadWinner(snakes[1], snakes[2])
    ELSE BodyCollisionWinner(snakes[1], snakes[2])

\* checkCollisionsSingle: only the first snake against its own body
checkCollisionsSingle(snakes) ==
    IF Len(snakes) = 0 THEN ""
    ELSE IF SelfHit(snakes[1]) THEN "game_over"
    ELSE ""

\* the router: checkCollisionsSingle for a solo game, else the two-snake rules
checkCollisionsRoute(single, snakes) ==
    IF single THEN checkCollisionsSingle(snakes) ELSE checkCollisions(snakes)

----------------------------------------------------------------------------
(* The mutable program state passed through the helpers below              *)

\* no error event
NoReply == [to |-> 0, code |-> ""]

\* `last` starts every step as NoReply: it tells of one step only
Cur == [players |-> players, channels |-> channels, lobby |-> lobby,
        games |-> games, table |-> table, pending |-> pending,
        registry |-> registry, notices |-> notices, crashed |-> crashed,
        left |-> left, last |-> NoReply, shown |-> shown]

Commit(S) ==
    /\ players' = S.players
    /\ channels' = S.channels
    /\ lobby' = S.lobby
    /\ games' = S.games
    /\ table' = S.table
    /\ pending' = S.pending
    /\ registry' = S.registry
    /\ notices' = S.notices
    /\ crashed' = S.crashed
    /\ left' = S.left
    /\ last' = S.last
    /\ shown' = S.shown

\* the program state is S
Holds(S) ==
    /\ players = S.players
    /\ channels = S.channels
    /\ lobby = S.lobby
    /\ games = S.games
    /\ table = S.table
    /\ pending = S.pending
    /\ registry = S.registry
    /\ notices = S.notices
    /\ crashed = S.crashed
    /\ left = S.left
    /\ last = S.last
    /\ shown = S.shown

MatchNotices == {"game_accept", "game_reject", "game_request_cancel"}

\* message types recorded in the history variable
Tracked == {"player_disconnected", "rematch_request"}

\* Player.Send != nil
Live(S, h) == S.players[h].send # 0

\* make(chan []byte, 256): n messages are queued; while the client reads,
\* writePump takes each message off at once, and while it does not
\* (stalled) they stay queued
OpenChan == [closed |-> FALSE, stalled |-> FALSE, n |-> 0]

\* gm.sendMessage: a non-blocking send on Player.Send when it is not nil.
\* A send on a closed channel panics.  On a full queue the select takes its
\* default branch, which logs and falls through to the WebRTC fallback; the
\* fallback is not part of the primary path and is not modelled.
sendMessage(S, h, type) ==
    LET ch == S.players[h].send IN
    IF ~Live(S, h) THEN S
    ELSE IF S.channels[ch].closed
    THEN [S EXCEPT !.crashed = TRUE]
    ELSE IF S.channels[ch].n >= QueueCap
    THEN S
    ELSE LET S1 == IF S.channels[ch].stalled
                   THEN [S EXCEPT !.channels[ch].n = @ + 1]
                   ELSE S
         IN  IF type \in S.left.watch
             THEN [S1 EXCEPT !.notices = @ \cup {<<h, type>>}]
             ELSE S1

\* sendMessage of MSG_ERROR; code is the "code" of the payload, or its
\* "message" where the payload has no code
sendError(S, h, code) ==
    LET S1 == sendMessage(S, h, "error") IN
    IF Live(S, h) /\ ~S1.crashed
    THEN [S1 EXCEPT !.last = [to |-> h, code |-> code]]
    ELSE S1

RECURSIVE SendAll(_, _, _)
SendAll(S, hs, type) ==
    IF hs = <<>> THEN S
    ELSE SendAll(sendMessage(S, Head(hs), type), Tail(hs), type)

\* broadcastToPlayers: Player1, Player2 if present, then the spectators
broadcastToPlayers(S, g, type) ==
    LET G == S.games[g]
        S1 == sendMessage(S, G.p1, type)
        S2 == IF G.p2 # 0 THEN sendMessage(S1, G.p2, type) ELSE S1
    IN  SendAll(S2, SeqOfSet(G.spectators), type)

\* lobby.Service: players map keyed by id plus the order slice
LobbyIndex(S, id) ==
    IF \E i \in 1..Len(S.lobby) : S.players[S.lobby[i]].id = id
    THEN CHOOSE i \in 1..Len(S.lobby) : S.players[S.lobby[i]].id = id
    ELSE 0

LobbyGet_Registry(S, id) ==
    IF id \in DOMAIN S.registry THEN S.registry[id] ELSE 0

\* Service.Get: the member with that id, 0 if absent
LobbyGet(S, id) ==
    IF LobbyIndex(S, id) = 0 THEN 0 ELSE S.lobby[LobbyIndex(S, id)]

LobbyAdd_Front(S, h) ==
    IF LobbyIndex(S, S.players[h].id) # 0 THEN S
    ELSE [S EXCEPT !.lobby = <<h>> \o @]

\* Service.Add
LobbyAdd(S, h) ==
    IF LobbyIndex(S, S.players[h].id) # 0 THEN S
    ELSE [S EXCEPT !.lobby = Append(@, h)]

\* Service.Remove
LobbyRemove(S, id) ==
    IF LobbyIndex(S, id) = 0 THEN S
    ELSE [S EXCEPT !.lobby = RemoveAt(@, LobbyIndex(S, id))]

\* the scan of gm.Games meets a game that is not finished and has no
\* Player2: game.Player2.ID is read through a nil pointer
NilPlayer2(S) ==
    \E g \in S.table : S.games[g].status # "finished" /\ S.games[g].p2 = 0

\* BroadcastLobbyStatus: the scan of gm.Games, then one lobby_status to
\* every member of the snapshot; the scan panics on a nil Player2
BroadcastLobbyStatus(S) ==
    IF NilPlayer2(S) THEN [S EXCEPT !.crashed = TRUE]
    ELSE SendAll(S, S.lobby, "lobby_status")

\* SendGamesList
SendGamesList(S, h) == sendMessage(S, h, "games_list")

\* BroadcastGamesList: SendGamesList to every member of the snapshot
BroadcastGamesList(S) == SendAll(S, S.lobby, "games_list")

\* AddToLobby
AddToLobby(S, h) ==
    IF LobbyIndex(S, S.players[h].id) # 0 THEN S
    ELSE SendGamesList(BroadcastLobbyStatus(LobbyAdd(S, h)), h)

\* RemoveFromLobby
RemoveFromLobby(S, id) == BroadcastLobbyStatus(LobbyRemove(S, id))

\* player is Player1 or Player2 of the game (compared by id)
IsPrincipal(S, g, id) ==
    \/ S.players[S.games[g].p1].id = id
    \/ (S.games[g].p2 # 0 /\ S.players[S.games[g].p2].id = id)

\* game.Spectators is keyed by player id
IsSpectator(S, g, id) ==
    \E h \in S.games[g].spectators : S.players[h].id = id

AuthorizeGameAccess_Anyone(S, id, g) == g \in S.table

\* MultiplayerGameManager.AuthorizeGameAccess
AuthorizeGameAccess(S, id, g) ==
    /\ g \in S.table
    /\ (IsPrincipal(S, g, id) \/ IsSpectator(S, g, id))

\* SinglePlayerGameManager.AuthorizeGameAccess
AuthorizeSingleAccess(S, id, g) ==
    /\ g \in S.table
    /\ S.games[g].single
    /\ S.players[S.games[g].p1].id = id

\* handleMessage picks the manager by game.IsSinglePlayer; each manager
\* checks its AuthorizeGameAccess first
Authorized(S, id, g) ==
    IF g \in S.table /\ S.games[g].single
    THEN AuthorizeSingleAccess(S, id, g)
    ELSE AuthorizeGameAccess(S, id, g)

\* the two snakes StartGame places
SpawnSnakes(S, g) ==
    << [id |-> S.players[S.games[g].p1].id,
        body |-> <<Pos(5, 15), Pos(4, 15), Pos(3, 15)>>,
        dir |-> RIGHT, next |-> RIGHT, score |-> 0],
       [id |-> S.players[S.games[g].p2].id,
        body |-> <<Pos(35, 15), Pos(36, 15), Pos(37, 15)>>,
        dir |-> LEFT, next |-> LEFT, score |-> 0] >>

----------------------------------------------------------------------------
(* Goroutines                                                              *)

Thread(kind, pc) ==
    [kind |-> kind, pc |-> pc, p |-> 0, g |-> 0, n |-> 0, w |-> "",
     name |-> "", mode |-> "", result |-> "", rpId |-> "", rpOther |-> 0,
     rpDisc |-> 0, branch |-> "", cont |-> "", tk |-> FALSE, ticks |-> 0,
     ch |-> 0]

\* a goroutine that has returned: its locals are gone
Finish(T) ==
    [Thread(T.kind, "done") EXCEPT !.mode = T.mode, !.result = T.result]

Running(c) ==
    /\ c \in 1..Len(thr)
    /\ thr[c].kind = "conn"
    /\ thr[c].pc = "running"

NewGame(from, target) ==
    [p1 |-> from, p2 |-> target, status |-> "waiting", countdown |-> 0,
     winner |-> "", isActive |-> FALSE, spectators |-> {}, snakes |-> <<>>,
     food |-> Pos(0, 0), ticker |-> 0, single |-> FALSE,
     asked |-> {}]    \* history: the principals whose player_ready for
                      \* this game set their Ready since it was last cleared

----------------------------------------------------------------------------
(* Identity: FindPlayerByID, FindPlayerByUsername, UsernameExists          *)

FindPlayerByID(S, id) ==
    IF id \in DOMAIN S.registry THEN S.registry[id] ELSE 0

NameMatch(S, h, name) == EqualFold(S.players[h].username, name)

\* what the scan of one game returns: Player1, else Player2, else a spectator
GameNameMatches(S, g, name) ==
    LET G == S.games[g] IN
    IF NameMatch(S, G.p1, name) THEN {G.p1}
    ELSE IF G.p2 # 0 /\ NameMatch(S, G.p2, name) THEN {G.p2}
    ELSE {h \in G.spectators : NameMatch(S, h, name)}

LobbyNameMatches(S, name) ==
    {i \in 1..Len(S.lobby) : NameMatch(S, S.lobby[i], name)}

\* FindPlayerByUsername: the possible results (gm.Games is ranged over in
\* map order, so any game with a match may be the one that answers)
FindPlayerByUsername(S, name) ==
    IF LobbyNameMatches(S, name) # {}
    THEN {S.lobby[CHOOSE i \in LobbyNameMatches(S, name) :
                     \A j \in LobbyNameMatches(S, name) : i <= j]}
    ELSE IF \A g \in S.table : GameNameMatches(S, g, name) = {}
    THEN {0}
    ELSE UNION {GameNameMatches(S, g, name) : g \in S.table}

\* UsernameExists: a live player of that name in the lobby or in a game
UsernameExists(S, name) ==
    \/ \E i \in 1..Len(S.lobby) :
          NameMatch(S, S.lobby[i], name) /\ Live(S, S.lobby[i])
    \/ \E g \in S.table :
          \E h \in ({S.games[g].p1, S.games[g].p2} \ {0}) \cup S.games[g].spectators :
              NameMatch(S, h, name) /\ Live(S, h)

\* make(chan []byte, 256) stored in Player.Send
MakeSend(S, h) ==
    [S EXCEPT !.channels = Append(@, OpenChan),
              !.players[h].send = Len(S.channels) + 1]

\* close(player.Send) inside the recover wrapper
CloseSend(S, h) ==
    [S EXCEPT !.channels[S.players[h].send].closed = TRUE]

Register(S, id, h) ==
    [S EXCEPT !.registry =
        [x \in DOMAIN S.registry \cup {id} |->
            IF x = id THEN h ELSE S.registry[x]]]

\* &models.Player{...} followed by gm.Players[player.ID] = player
CreatePlayer(S, id, name) ==
    LET h == Len(S.players) + 1
        S1 == [S EXCEPT !.players =
                  Append(@, [id |-> id, username |-> name, send |-> 0,
                             ready |-> FALSE])]
    IN  Register(MakeSend(S1, h), id, h)

\* RestorePlayerGameState: the latest snapshot of a playing game of the
\* player is sent to the player
RestorePlayerGameState(S, h) ==
    IF \E g \in S.table : S.games[g].status = "playing"
                          /\ IsPrincipal(S, g, S.players[h].id)
    THEN sendMessage(S, h, "game_update")
    ELSE S

----------------------------------------------------------------------------
(* ServeHTTP: handleUsernameConnection, handleTokenConnection, the pumps   *)

\* claims carried by the tokens a client can present: every player of this
\* process has been issued one, one token is left over from an earlier
\* process, and one token does not validate
TokenInputs ==
    {[ok |-> TRUE, id |-> players[h].id, name |-> players[h].username] :
        h \in 1..Len(players)}
    \cup {[ok |-> TRUE, id |-> "old", name |-> "eve"],
          [ok |-> FALSE, id |-> "", name |-> ""]}

NeedNewRecord_Always(found) == TRUE

\* `if player == nil` after FindPlayerByID in handleTokenConnection
NeedNewRecord(found) == found = 0

\* second half of handleUsernameConnection: the UsernameExists check, then
\* the new player, its registration and the start of the pumps
UsernameAdmit(S, name) ==
    IF UsernameExists(S, name)
    THEN [S |-> S, result |-> "USERNAME_EXISTS", p |-> 0, pc |-> "done",
          ch |-> 0]
    ELSE LET h == Len(S.players) + 1
             S1 == CreatePlayer(S, Uuid(h), name)
         IN  [S |-> RestorePlayerGameState(S1, h), result |-> "connected",
              p |-> h, pc |-> "running", ch |-> S1.players[h].send]

\* A connect with ?username=name.  A live holder of the name found by
\* FindPlayerByUsername is closed, its Send is set to nil and RemovePlayer is
\* called for it (its first statement, Lobby.Remove, is part of this step).
ConnectUsername(name) ==
    /\ ~crashed
    /\ left.conns > 0
    /\ \E e \in FindPlayerByUsername(Cur, name) :
         IF e # 0 /\ Live(Cur, e)
         THEN /\ (LobbyNameMatches(Cur, name) # {} \/ gmWriter = 0)
              /\ Commit(LobbyRemove([CloseSend(Cur, e) EXCEPT
                                        !.players[e].send = 0,
                                        !.left.conns = @ - 1],
                                    players[e].id))
              /\ thr' = Append(thr, [Thread("conn", "rpLock") EXCEPT
                                       !.mode = "username", !.name = name,
                                       !.rpId = players[e].id, !.cont = "user"])
              /\ UNCHANGED gmWriter
         ELSE /\ gmWriter = 0
              /\ LET r == UsernameAdmit(Cur, name) IN
                 /\ Commit([r.S EXCEPT !.left.conns = @ - 1])
                 /\ thr' = Append(thr, [Thread("conn", r.pc) EXCEPT
                                          !.mode = "username",
                                          !.result = r.result, !.p = r.p,
                                          !.ch = r.ch])
              /\ UNCHANGED gmWriter

\* handleUsernameConnection after RemovePlayer has returned and the 50 ms
\* sleep is over
UsernameConnFinish(t) ==
    /\ ~crashed
    /\ t \in 1..Len(thr)
    /\ thr[t].kind = "conn"
    /\ thr[t].pc = "userSleep"
    /\ gmWriter = 0
    /\ LET r == UsernameAdmit(Cur, thr[t].name) IN
       /\ Commit(r.S)
       /\ thr' = [thr EXCEPT ![t].pc = r.pc, ![t].result = r.result,
                             ![t].p = r.p, ![t].ch = r.ch, ![t].name = "",
                             ![t].rpId = "", ![t].cont = ""]
    /\ UNCHANGED gmWriter

\* A connect with ?token=...: handleTokenConnection up to its 100 ms sleep,
\* or up to the start of the pumps when the player has no Send
ConnectToken(tok) ==
    /\ ~crashed
    /\ left.conns > 0
    /\ IF ~tok.ok
       THEN /\ thr' = Append(thr, [Thread("conn", "done") EXCEPT
                                     !.mode = "token", !.result = "INVALID_TOKEN"])
            /\ Commit([Cur EXCEPT !.left.conns = @ - 1])
            /\ UNCHANGED gmWriter
       ELSE /\ gmWriter = 0
            /\ LET found == FindPlayerByID(Cur, tok.id)
                   fresh == NeedNewRecord(found)
                   S0 == [Cur EXCEPT !.left.conns = @ - 1]
                   S1 == IF fresh THEN CreatePlayer(S0, tok.id, tok.name) ELSE S0
                   h == IF fresh THEN Len(players) + 1 ELSE found
               IN  IF ~Live(S1, h)
                   THEN /\ Commit(RestorePlayerGameState(MakeSend(S1, h), h))
                        /\ thr' = Append(thr, [Thread("conn", "running") EXCEPT
                                                 !.mode = "token", !.p = h,
                                                 !.result = "connected",
                                                 !.ch = Len(S1.channels) + 1])
                   ELSE /\ Commit(CloseSend(S1, h))
                        /\ thr' = Append(thr, [Thread("conn", "tokenSleep") EXCEPT
                                                 !.mode = "token", !.p = h])
            /\ UNCHANGED gmWriter

\* handleTokenConnection after the sleep: a new Send, then the pumps start
TokenConnFinish(t) ==
    /\ ~crashed
    /\ t \in 1..Len(thr)
    /\ thr[t].kind = "conn"
    /\ thr[t].pc = "tokenSleep"
    /\ gmWriter = 0
    /\ Commit(RestorePlayerGameState(MakeSend(Cur, thr[t].p), thr[t].p))
    /\ thr' = [thr EXCEPT ![t].pc = "running", ![t].result = "connected",
                          ![t].ch = Len(channels) + 1]
    /\ UNCHANGED gmWriter

\* the peer closes the socket: ReadMessage fails in readPump
ClientClose(c) ==
    /\ ~crashed
    /\ Running(c)
    /\ thr' = [thr EXCEPT ![c].pc = "closed"]
    /\ Commit(Cur)
    /\ UNCHANGED gmWriter

\* writePump, blocked in its select on the channel that was Player.Send
\* when it entered, receives from the closed channel, writes the close
\* message and closes the socket
WritePumpExit(c) ==
    /\ ~crashed
    /\ Running(c)
    /\ channels[thr[c].ch].closed
    /\ thr' = [thr EXCEPT ![c].pc = "closed"]
    /\ Commit(Cur)
    /\ UNCHANGED gmWriter

\* the deferred function of readPump: RemovePlayer only if Send is nil
ReadPumpExit(c) ==
    /\ ~crashed
    /\ c \in 1..Len(thr)
    /\ thr[c].kind = "conn"
    /\ thr[c].pc = "closed"
    /\ IF Live(Cur, thr[c].p)
       THEN /\ thr' = [thr EXCEPT ![c] = Finish(@)]
            /\ Commit(Cur)
       ELSE /\ Commit(LobbyRemove(Cur, players[thr[c].p].id))
            /\ thr' = [thr EXCEPT ![c].pc = "rpLock", ![c].cont = "read",
                                  ![c].rpId = players[thr[c].p].id]
    /\ UNCHANGED gmWriter

----------------------------------------------------------------------------
(* endGame                                                                 *)

InLobby(S, h) == LobbyIndex(S, S.players[h].id) # 0

\* what endGame writes under game.Mutex
EndGameMark(S, g, winner) ==
    LET G == S.games[g]
        S1 == [S EXCEPT !.games[g].isActive = FALSE,
                        !.games[g].status = "finished",
                        !.games[g].winner = winner,
                        !.games[g].asked = {},
                        !.players[G.p1].ready = FALSE]
    IN  IF G.p2 # 0 THEN [S1 EXCEPT !.players[G.p2].ready = FALSE] ELSE S1

\* where endGame first needs gm.Mutex.RLock (inside BroadcastLobbyStatus or
\* SendGamesList): 1 in AddToLobby(player1), 2 in AddToLobby(player2),
\* 3 in the closing broadcasts
EndGameStage(S, g) ==
    LET G == S.games[g] IN
    IF ~Live(S, G.p1) THEN 3
    ELSE IF ~InLobby(S, G.p1) THEN 1
    ELSE IF G.p2 = 0 \/ ~Live(S, G.p2) THEN 3
    ELSE IF ~InLobby(S, G.p2) THEN 2
    ELSE 3

\* endGame up to that point: the marking, game_over, and the Lobby.Add of
\* the AddToLobby call it stops in
EndGamePrefix(S, g, winner) ==
    LET S1 == broadcastToPlayers(EndGameMark(S, g, winner), g, "game_over")
        st == EndGameStage(S1, g)
    IN  IF st = 1 THEN LobbyAdd(S1, S1.games[g].p1)
        ELSE IF st = 2 THEN LobbyAdd(S1, S1.games[g].p2)
        ELSE S1

EndGameClosing(S) == BroadcastLobbyStatus(BroadcastGamesList(S))

\* the remainder of endGame once the read lock is available
EndGameRest(S, g, st) ==
    LET G == S.games[g] IN
    IF st = 1
    THEN LET S1 == SendGamesList(BroadcastLobbyStatus(S), G.p1) IN
         IF G.p2 = 0 \/ ~Live(S1, G.p2) THEN EndGameClosing(S1)
         ELSE EndGameClosing(AddToLobby(S1, G.p2))
    ELSE IF st = 2
    THEN EndGameClosing(SendGamesList(BroadcastLobbyStatus(S), G.p2))
    ELSE EndGameClosing(S)

\* gameLoop calls endGame after a terminal collision: the part of endGame
\* that needs no manager lock
EndGameBegin(t) ==
    /\ ~crashed
    /\ t \in 1..Len(thr)
    /\ thr[t].kind = "loop"
    /\ thr[t].pc = "endGame"
    /\ LET S0 == EndGameMark(Cur, thr[t].g, thr[t].w)
           st == EndGameStage(broadcastToPlayers(S0, thr[t].g, "game_over"), thr[t].g)
       IN  /\ Commit(EndGamePrefix(Cur, thr[t].g, thr[t].w))
           /\ thr' = [thr EXCEPT ![t].pc = "rlock", ![t].n = st]
    /\ UNCHANGED gmWriter

----------------------------------------------------------------------------
(* RemovePlayer                                                            *)

RemoveCandidates(S, id) ==
    {g \in S.table : IsPrincipal(S, g, id) \/ IsSpectator(S, g, id)}

\* RemovePlayer returns: to the sleep of handleUsernameConnection, or to the
\* end of readPump
AfterRemove(T) ==
    IF T.cont = "user"
    THEN [Thread("conn", "userSleep") EXCEPT !.mode = T.mode, !.name = T.name]
    ELSE Finish(T)

\* RemovePlayer from gm.Mutex.Lock() on (Lobby.Remove has been done).  The
\* range over gm.Games stops at the first game that has the player as a
\* principal or a spectator.  The step ends where RemovePlayer returns, or
\* where it calls gm.Mutex.RLock() through endGame, AddToLobby or
\* BroadcastGamesList while it still holds gm.Mutex.
RemovePlayerLocked(t) ==
    /\ ~crashed
    /\ t \in 1..Len(thr)
    /\ thr[t].kind = "conn"
    /\ thr[t].pc = "rpLock"
    /\ gmWriter = 0
    /\ LET id == thr[t].rpId
           back == AfterRemove(thr[t])
       IN
       IF RemoveCandidates(Cur, id) = {}
       THEN /\ thr' = [thr EXCEPT ![t] = back]
            /\ Commit(Cur)
            /\ UNCHANGED gmWriter
       ELSE \E g \in RemoveCandidates(Cur, id) :
            LET G == games[g] IN
            IF IsPrincipal(Cur, g, id)
            THEN LET disc == IF players[G.p1].id = id THEN G.p1 ELSE G.p2
                     other == IF players[G.p1].id = id THEN G.p2 ELSE G.p1
                     S1 == [Cur EXCEPT !.players[disc].send = 0]
                 IN
                 IF G.isActive
                 THEN /\ Commit(EndGamePrefix(S1, g, "disconnect"))
                      /\ thr' = [thr EXCEPT ![t].pc = "rlock", ![t].g = g,
                                   ![t].branch = "active", ![t].rpOther = other,
                                   ![t].rpDisc = disc,
                                   ![t].n = EndGameStage(
                                       broadcastToPlayers(
                                           EndGameMark(S1, g, "disconnect"),
                                           g, "game_over"), g)]
                      /\ gmWriter' = t
                 ELSE LET S2 == sendMessage(S1, other, "game_request_cancel") IN
                      IF Live(S2, other) /\ ~InLobby(S2, other)
                      THEN /\ Commit(LobbyAdd(S2, other))
                           /\ thr' = [thr EXCEPT ![t].pc = "rlock", ![t].g = g,
                                        ![t].branch = "inactive",
                                        ![t].rpOther = other, ![t].rpDisc = disc]
                           /\ gmWriter' = t
                      ELSE /\ Commit([S2 EXCEPT !.table = @ \ {g}])
                           /\ thr' = [thr EXCEPT ![t] = back]
                           /\ UNCHANGED gmWriter
            ELSE LET S1 == [Cur EXCEPT !.games[g].spectators =
                               {h \in @ : players[h].id # id}]
                 IN  IF S1.lobby # <<>>
                     THEN /\ Commit(S1)
                          /\ thr' = [thr EXCEPT ![t].pc = "rlock", ![t].g = g,
                                       ![t].branch = "spectator"]
                          /\ gmWriter' = t
                     ELSE /\ Commit(S1)
                          /\ thr' = [thr EXCEPT ![t] = back]
                          /\ UNCHANGED gmWriter

\* the rest of RemovePlayer after the call that needed the read lock
RemovePlayerRest(S, T) ==
    IF T.branch = "active"
    THEN LET S1 == EndGameRest(S, T.g, T.n)
             S2 == sendMessage(S1, T.rpOther, "player_disconnected")
             S3 == IF Live(S2, T.rpOther) THEN AddToLobby(S2, T.rpOther) ELSE S2
             S4 == BroadcastLobbyStatus(S3)
         IN  [S4 EXCEPT !.table = @ \ {T.g}]
    ELSE IF T.branch = "inactive"
    THEN LET S1 == SendGamesList(BroadcastLobbyStatus(S), T.rpOther)
         IN  [S1 EXCEPT !.table = @ \ {T.g}]
    ELSE BroadcastGamesList(S)

----------------------------------------------------------------------------
(* Message handlers, run by readPump of a connection                       *)

Me(c) == thr[c].p
MyId(c) == players[thr[c].p].id

Quiet == UNCHANGED <<gmWriter, thr>>

\* join_lobby -> AddToLobby
JoinLobby(c) ==
    /\ ~crashed /\ Running(c) /\ gmWriter = 0
    /\ Commit(AddToLobby(Cur, Me(c)))
    /\ Quiet

\* leave_lobby -> RemoveFromLobby
LeaveLobby(c) ==
    /\ ~crashed /\ Running(c) /\ gmWriter = 0
    /\ Commit(RemoveFromLobby(Cur, MyId(c)))
    /\ Quiet

\* game_request -> SendGameRequest
SendGameRequest(c, toID) ==
    /\ ~crashed /\ Running(c) /\ gmWriter = 0
    /\ LET target == LobbyGet(Cur, toID) IN
       IF target = 0
       THEN Commit(sendError(Cur, Me(c), "Player not found in lobby"))
       ELSE IF \E e \in pending : e[1] = toID /\ e[2] = MyId(c)
       THEN Commit(sendError(Cur, Me(c), "You already sent a request to this player"))
       ELSE /\ Len(games) < left.games
            /\ LET g == Len(games) + 1
                   S1 == [Cur EXCEPT !.games = Append(@, NewGame(Me(c), target)),
                                     !.table = @ \cup {g},
                                     !.pending = @ \cup {<<toID, MyId(c), g>>}]
               IN  Commit(sendMessage(sendMessage(S1, target, "match_found"),
                                      Me(c), "game_request_sent"))
    /\ Quiet

\* game_request_cancel -> CancelGameRequest
CancelGameRequest(c, toID) ==
    /\ ~crashed /\ Running(c) /\ gmWriter = 0
    /\ IF \E e \in pending : e[1] = toID /\ e[2] = MyId(c)
       THEN LET e == CHOOSE x \in pending : x[1] = toID /\ x[2] = MyId(c)
                S1 == [Cur EXCEPT !.pending = @ \ {e}, !.table = @ \ {e[3]}]
                S2 == IF LobbyGet(S1, toID) # 0
                      THEN sendMessage(S1, LobbyGet(S1, toID), "game_request_cancel")
                      ELSE S1
            IN  Commit(sendMessage(S2, Me(c), "game_request_cancel"))
       ELSE Commit(Cur)
    /\ Quiet

\* game_accept -> AcceptGameRequest
AcceptGameRequest(c, g) ==
    /\ ~crashed /\ Running(c) /\ gmWriter = 0
    /\ g \in 1..Len(games)
    /\ IF g \notin table
       THEN Commit(sendError(Cur, Me(c), "Game not found"))
       ELSE IF players[games[g].p2].id # MyId(c)
       THEN Commit(sendError(Cur, Me(c), "You are not the target player"))
       ELSE LET S1 == [Cur EXCEPT !.pending =
                        {e \in @ :
                            /\ ~(e[1] = MyId(c) /\ e[2] = players[games[g].p1].id)
                            /\ ~(e[1] # MyId(c) /\ e[2] = MyId(c))}]
                S2 == sendMessage(S1, games[g].p1, "game_accept")
                S3 == sendMessage(S2, games[g].p2, "game_accept")
            IN  Commit(BroadcastGamesList(S3))
    /\ Quiet

RejectGameRequest_Anyone(c, g) ==
    /\ ~crashed /\ Running(c) /\ gmWriter = 0
    /\ g \in 1..Len(games)
    /\ IF g \in table
       THEN LET S1 == [Cur EXCEPT !.pending =
                        {e \in @ : ~(e[1] = MyId(c)
                                     /\ e[2] = players[games[g].p1].id)},
                                  !.table = @ \ {g}]
            IN  Commit(sendMessage(S1, games[g].p1, "game_reject"))
       ELSE Commit(Cur)
    /\ Quiet

\* game_reject -> RejectGameRequest
RejectGameRequest(c, g) ==
    /\ ~crashed /\ Running(c) /\ gmWriter = 0
    /\ g \in 1..Len(games)
    /\ IF g \in table /\ players[games[g].p2].id = MyId(c)
       THEN LET S1 == [Cur EXCEPT !.pending =
                        {e \in @ : ~(e[1] = MyId(c)
                                     /\ e[2] = players[games[g].p1].id)},
                                  !.table = @ \ {g}]
            IN  Commit(sendMessage(S1, games[g].p1, "game_reject"))
       ELSE Commit(Cur)
    /\ Quiet

\* Player1.Ready / Player2.Ready = true for the slot with the sender's id
MarkReady(S, g, id) ==
    IF S.players[S.games[g].p1].id = id
    THEN [S EXCEPT !.players[S.games[g].p1].ready = TRUE,
                   !.games[g].asked = @ \cup {S.games[g].p1}]
    ELSE IF S.players[S.games[g].p2].id = id
    THEN [S EXCEPT !.players[S.games[g].p2].ready = TRUE,
                   !.games[g].asked = @ \cup {S.games[g].p2}]
    ELSE S

BothReady(S, g) ==
    S.players[S.games[g].p1].ready /\ S.players[S.games[g].p2].ready

\* player_ready -> MultiplayerGameManager.HandlePlayerReady -> PlayerReady;
\* `go gm.StartGame(gameID)` when both flags are set
PlayerReady(c, g) ==
    /\ ~crashed /\ Running(c) /\ gmWriter = 0
    /\ g \in 1..Len(games)
    /\ IF ~AuthorizeGameAccess(Cur, MyId(c), g)
       THEN /\ Commit(sendError(Cur, Me(c), "UNAUTHORIZED"))
            /\ UNCHANGED thr
       ELSE LET S1 == MarkReady(Cur, g, MyId(c))
                S2 == broadcastToPlayers(S1, g, "game_update")
            IN  IF BothReady(S1, g)
                THEN /\ left.starts > 0
                     /\ Commit([S2 EXCEPT !.left.starts = @ - 1])
                     /\ thr' = Append(thr, [Thread("start", "s0") EXCEPT !.g = g])
                ELSE /\ Commit(S2)
                     /\ UNCHANGED thr
    /\ UNCHANGED gmWriter

StageDirection_Always(snake, d) == [snake EXCEPT !.next = d]

\* NextDir = direction unless it reverses Direction
StageDirection(snake, d) ==
    IF d = opposites(snake.dir) THEN snake ELSE [snake EXCEPT !.next = d]

\* player_move -> MultiplayerGameManager.HandlePlayerMove -> HandlePlayerMove
HandlePlayerMove(c, g, str) ==
    /\ ~crashed /\ Running(c) /\ gmWriter = 0
    /\ g \in 1..Len(games)
    /\ IF ~Authorized(Cur, MyId(c), g)
       THEN Commit(sendError(Cur, Me(c), "UNAUTHORIZED"))
       ELSE IF ~games[g].isActive
       THEN Commit(Cur)
       ELSE IF ~IsPrincipal(Cur, g, MyId(c))
       THEN Commit(sendError(Cur, Me(c), "NOT_A_PLAYER"))
       ELSE IF ParseDirection(str) = -1
       THEN Commit(Cur)
       ELSE LET d == ParseDirection(str)
                idx == {i \in 1..Len(games[g].snakes) :
                            games[g].snakes[i].id = MyId(c)}
            IN  IF idx = {} THEN Commit(Cur)
                ELSE LET i == CHOOSE k \in idx : \A m \in idx : k <= m IN
                     Commit([Cur EXCEPT !.games[g].snakes[i] =
                                StageDirection(@, d)])
    /\ Quiet

\* join_spectator -> AddSpectator
AddSpectator(c, g) ==
    /\ ~crashed /\ Running(c) /\ gmWriter = 0
    /\ g \in 1..Len(games)
    /\ IF g \notin table
       THEN Commit(sendError(Cur, Me(c), "GAME_NOT_FOUND"))
       ELSE IF IsPrincipal(Cur, g, MyId(c))
       THEN Commit(sendError(Cur, Me(c), "ALREADY_PLAYER"))
       ELSE IF IsSpectator(Cur, g, MyId(c))
       THEN Commit(Cur)
       ELSE LET S1 == [Cur EXCEPT !.games[g].spectators = @ \cup {Me(c)}]
            IN  Commit(BroadcastGamesList(
                    sendMessage(S1, Me(c), "spectator_update")))
    /\ Quiet

----------------------------------------------------------------------------
(* StartGame and gameLoop                                                  *)

\* StartGame: lookup, then Status = "countdown", Countdown = 3
StartGameBegin(t) ==
    /\ ~crashed
    /\ t \in 1..Len(thr)
    /\ thr[t].kind = "start"
    /\ thr[t].pc = "s0"
    /\ gmWriter = 0
    /\ IF thr[t].g \notin table
       THEN /\ thr' = [thr EXCEPT ![t] = Finish(@)]
            /\ Commit(Cur)
       ELSE /\ thr' = [thr EXCEPT ![t].pc = "cd", ![t].n = 3]
            /\ Commit([Cur EXCEPT !.games[thr[t].g].status = "countdown",
                                  !.games[thr[t].g].countdown = 3])
    /\ UNCHANGED gmWriter

\* one round of the countdown loop: Countdown = i, game_update, sleep
StartGameCount(t) ==
    /\ ~crashed
    /\ t \in 1..Len(thr)
    /\ thr[t].kind = "start"
    /\ thr[t].pc = "cd"
    /\ thr[t].n > 0
    /\ thr' = [thr EXCEPT ![t].n = @ - 1]
    /\ Commit(broadcastToPlayers(
                [Cur EXCEPT !.games[thr[t].g].countdown = thr[t].n,
                            !.shown = Append(@, <<thr[t].g, thr[t].n>>)],
                thr[t].g, "game_update"))
    /\ UNCHANGED gmWriter

\* after the countdown: Status = "playing", the snakes, the food, IsActive,
\* game_start, and the Lobby.Remove of RemoveFromLobby(Player1).  n keeps
\* the value game.Ticker has when the goroutine leaves game.Mutex.
StartGamePlay(t) ==
    /\ ~crashed
    /\ t \in 1..Len(thr)
    /\ thr[t].kind = "start"
    /\ thr[t].pc = "cd"
    /\ thr[t].n = 0
    /\ \E f \in FoodCells :
         LET g == thr[t].g
             sn == SpawnSnakes(Cur, g)
             S1 == [Cur EXCEPT !.games[g].status = "playing",
                               !.games[g].countdown = 0,
                               !.games[g].snakes = sn,
                               !.games[g].food = f,
                               !.games[g].isActive = TRUE]
             S2 == broadcastToPlayers(S1, g, "game_start")
         IN  /\ FoodValid(f, sn)
             /\ Commit(LobbyRemove(S2, players[games[g].p1].id))
    /\ thr' = [thr EXCEPT ![t].pc = "rlock", ![t].n = games[thr[t].g].ticker]
    /\ UNCHANGED gmWriter

\* the rest of StartGame: the lobby broadcasts, the games list, the ticker
StartGameRest(S, g) ==
    BroadcastGamesList(
        RemoveFromLobby(BroadcastLobbyStatus(S), S.players[S.games[g].p2].id))

StopTicker(T, k) == IF k = 0 THEN T ELSE [T EXCEPT ![k].tk = FALSE]

\* A goroutine that has reached gm.Mutex.RLock() gets the lock and runs to
\* its end: endGame called by gameLoop (then gameLoop returns),
\* StartGame (then the new ticker and `go gm.gameLoop`), RemovePlayer.
\* StartGame reads and writes game.Ticker under no lock: its
\* `if game.Ticker != nil` sees the ticker of now, or the one game.Ticker
\* held when this goroutine left game.Mutex if another StartGame has
\* assigned a new one since.
RLockResume(t) ==
    /\ ~crashed
    /\ t \in 1..Len(thr)
    /\ thr[t].pc = "rlock"
    /\ gmWriter = 0
    /\ LET g == thr[t].g IN
       IF thr[t].kind = "loop"
       THEN /\ Commit(EndGameRest(Cur, g, thr[t].n))
            /\ thr' = [thr EXCEPT ![t] = Finish(@)]
       ELSE IF thr[t].kind = "start"
       THEN /\ Commit([StartGameRest(Cur, g) EXCEPT
                          !.games[g].ticker = Len(thr) + 1])
            /\ \E k \in {games[g].ticker, thr[t].n} :
                 thr' = Append(StopTicker([thr EXCEPT ![t] = Finish(@)], k),
                               [Thread("loop", "loop") EXCEPT !.g = g,
                                                              !.tk = TRUE])
       ELSE /\ Commit(RemovePlayerRest(Cur, thr[t]))
            /\ thr' = [thr EXCEPT ![t] = AfterRemove(@)]
    /\ gmWriter' = 0

\* one iteration of gameLoop on a tick of its ticker
Tick(t) ==
    /\ ~crashed
    /\ t \in 1..Len(thr)
    /\ thr[t].kind = "loop"
    /\ thr[t].pc = "loop"
    /\ thr[t].tk
    /\ thr[t].ticks < MaxTicks
    /\ LET g == thr[t].g
           G == games[g]
       IN  IF ~G.isActive
           THEN /\ thr' = [thr EXCEPT ![t] = Finish(@)]
                /\ Commit(Cur)
           ELSE \E picks \in [1..Len(G.snakes) -> FoodCells] :
                LET r == MoveSnakes(PromoteDirs(G.snakes), G.food, picks, 1)
                    winner == checkCollisionsRoute(G.single, r.snakes)
                    S1 == [Cur EXCEPT !.games[g].snakes = r.snakes,
                                      !.games[g].food = r.food]
                IN  /\ r.ok
                    /\ IF winner # ""
                       THEN /\ Commit(S1)
                            /\ thr' = [thr EXCEPT ![t].pc = "endGame",
                                                  ![t].w = winner,
                                                  ![t].ticks = @ + 1]
                       ELSE /\ Commit(broadcastToPlayers(S1, g, "game_update"))
                            /\ thr' = [thr EXCEPT ![t].ticks = @ + 1]
    /\ UNCHANGED gmWriter

----------------------------------------------------------------------------
(* Rematch                                                                 *)

\* rematch_request -> MultiplayerGameManager.HandleRematchRequest ->
\* HandleRematchRequest
HandleRematchRequest(c, g) ==
    /\ ~crashed /\ Running(c) /\ gmWriter = 0
    /\ g \in 1..Len(games)
    /\ IF ~AuthorizeGameAccess(Cur, MyId(c), g)
       THEN /\ Commit(sendError(Cur, Me(c), "UNAUTHORIZED"))
            /\ UNCHANGED thr
       ELSE IF ~IsPrincipal(Cur, g, MyId(c))
       THEN /\ Commit(sendError(Cur, Me(c), "NOT_A_PLAYER"))
            /\ UNCHANGED thr
       ELSE LET G == games[g]
                other == IF players[G.p1].id = MyId(c) THEN G.p2 ELSE G.p1
            IN  IF other = 0 \/ ~Live(Cur, other)
                THEN /\ Commit(sendError(Cur, Me(c), "OPPONENT_DISCONNECTED"))
                     /\ thr' = [thr EXCEPT ![c].pc = "abandon", ![c].g = g]
                ELSE /\ Commit(sendMessage(Cur, other, "rematch_request"))
                     /\ UNCHANGED thr
    /\ UNCHANGED gmWriter

\* HandleRematchRequest after OPPONENT_DISCONNECTED: delete(gm.Games, gameID)
\* under no lock, then AddToLobby, whose broadcasts wait at
\* gm.Mutex.RLock() while a writer holds gm.Mutex
HandleRematchAbandon(c) ==
    /\ ~crashed
    /\ c \in 1..Len(thr)
    /\ thr[c].kind = "conn"
    /\ thr[c].pc = "abandon"
    /\ LET h == thr[c].p
           S1 == [Cur EXCEPT !.table = @ \ {thr[c].g}]
       IN  IF Live(S1, h) /\ ~InLobby(S1, h)
           THEN IF gmWriter = 0
                THEN /\ Commit(AddToLobby(S1, h))
                     /\ thr' = [thr EXCEPT ![c].pc = "running", ![c].g = 0]
                ELSE /\ Commit(LobbyAdd(S1, h))
                     /\ thr' = [thr EXCEPT ![c].pc = "blocked", ![c].g = 0]
           ELSE /\ Commit(S1)
                /\ thr' = [thr EXCEPT ![c].pc = "running", ![c].g = 0]
    /\ UNCHANGED gmWriter

\* rematch_accept -> MultiplayerGameManager.HandleRematchAccept ->
\* HandleRematchAccept; `go gm.startRematch(gameID)`
HandleRematchAccept(c, g) ==
    /\ ~crashed /\ Running(c) /\ gmWriter = 0
    /\ g \in 1..Len(games)
    /\ IF ~AuthorizeGameAccess(Cur, MyId(c), g)
       THEN /\ Commit(sendError(Cur, Me(c), "UNAUTHORIZED"))
            /\ UNCHANGED thr
       ELSE IF ~IsPrincipal(Cur, g, MyId(c))
       THEN /\ Commit(sendError(Cur, Me(c), "NOT_A_PLAYER"))
            /\ UNCHANGED thr
       ELSE /\ left.starts > 0
            /\ Commit([broadcastToPlayers(Cur, g, "rematch_accept")
                         EXCEPT !.left.starts = @ - 1])
            /\ thr' = Append(thr, [Thread("rematch", "s0") EXCEPT !.g = g])
    /\ UNCHANGED gmWriter

\* startRematch: the lookup under gm.Mutex.RLock()
RematchBegin(t) ==
    /\ ~crashed
    /\ t \in 1..Len(thr)
    /\ thr[t].kind = "rematch"
    /\ thr[t].pc = "s0"
    /\ gmWriter = 0
    /\ IF thr[t].g \notin table
       THEN thr' = [thr EXCEPT ![t] = Finish(@)]
       ELSE thr' = [thr EXCEPT ![t].pc = "cd", ![t].n = 5]
    /\ Commit(Cur)
    /\ UNCHANGED gmWriter

\* one round of the countdown loop of startRematch: rematch_countdown, sleep
RematchCount(t) ==
    /\ ~crashed
    /\ t \in 1..Len(thr)
    /\ thr[t].kind = "rematch"
    /\ thr[t].pc = "cd"
    /\ thr[t].n > 0
    /\ thr' = [thr EXCEPT ![t].n = @ - 1]
    /\ Commit(broadcastToPlayers(Cur, thr[t].g, "rematch_countdown"))
    /\ UNCHANGED gmWriter

\* the rest of startRematch: the reset under game.Mutex, the new ticker and
\* `go gm.gameLoop`, game_start
RematchPlay(t) ==
    /\ ~crashed
    /\ t \in 1..Len(thr)
    /\ thr[t].kind = "rematch"
    /\ thr[t].pc = "cd"
    /\ thr[t].n = 0
    /\ \E f \in FoodCells :
         LET g == thr[t].g
             G == games[g]
             sn == SpawnSnakes(Cur, g)
             S1 == [Cur EXCEPT !.games[g].status = "playing",
                               !.games[g].countdown = 0,
                               !.games[g].winner = "",
                               !.games[g].asked = {},
                               !.players[G.p1].ready = FALSE,
                               !.players[G.p2].ready = FALSE]
             S2 == [S1 EXCEPT !.games[g].snakes = sn,
                              !.games[g].food = f,
                              !.games[g].isActive = TRUE,
                              !.games[g].ticker = Len(thr) + 1]
         IN  /\ FoodValid(f, sn)
             /\ Commit(broadcastToPlayers(S2, g, "game_start"))
             /\ thr' = Append(StopTicker([thr EXCEPT ![t] = Finish(@)],
                                         G.ticker),
                              [Thread("loop", "loop") EXCEPT !.g = g, !.tk = TRUE])
    /\ UNCHANGED gmWriter

----------------------------------------------------------------------------
(* The manager after NewGameManager, and its behaviours                    *)

Init ==
    /\ players = <<>>
    /\ channels = <<>>
    /\ registry = <<>>
    /\ lobby = <<>>
    /\ games = <<>>
    /\ table = {}
    /\ pending = {}
    /\ gmWriter = 0
    /\ thr = <<>>
    /\ notices = {}
    /\ crashed = FALSE
    /\ left = [conns |-> MaxConns, starts |-> MaxStarts,
             games |-> MaxGames, watch |-> Tracked]
    /\ last = NoReply
    /\ shown = <<>>

Conns == 1..Len(thr)
GameIds == 1..Len(games)

Next ==
    \/ \E name \in Names : ConnectUsername(name)
    \/ \E tok \in TokenInputs : ConnectToken(tok)
    \/ \E t \in Conns : UsernameConnFinish(t)
    \/ \E t \in Conns : TokenConnFinish(t)
    \/ \E c \in Conns : WritePumpExit(c)
    \/ \E c \in Conns : ClientClose(c)
    \/ \E c \in Conns : ReadPumpExit(c)
    \/ \E t \in Conns : RemovePlayerLocked(t)
    \/ \E t \in Conns : RLockResume(t)
    \/ \E c \in Conns : JoinLobby(c)
    \/ \E c \in Conns : LeaveLobby(c)
    \/ \E c \in Conns : \E id \in DOMAIN registry : SendGameRequest(c, id)
    \/ \E c \in Conns : \E id \in DOMAIN registry : CancelGameRequest(c, id)
    \/ \E c \in Conns : \E g \in GameIds : AcceptGameRequest(c, g)
    \/ \E c \in Conns : \E g \in GameIds : RejectGameRequest(c, g)
    \/ \E c \in Conns : \E g \in GameIds : PlayerReady(c, g)
    \/ \E t \in Conns : StartGameBegin(t)
    \/ \E t \in Conns : StartGameCount(t)
    \/ \E t \in Conns : StartGamePlay(t)

Spec == Init /\ [][Next]_vars

----------------------------------------------------------------------------
(* A game in play: the state StartGame leaves behind for two players that  *)
(* connected by name, were matched and sent player_ready                   *)

PlayPlayers ==
    << [id |-> Uuid(1), username |-> "bob", send |-> 1, ready |-> TRUE],
       [id |-> Uuid(2), username |-> "eve", send |-> 2, ready |-> TRUE] >>

PlayConn(h) ==
    [Thread("conn", "running") EXCEPT !.mode = "username",
                                      !.result = "connected", !.p = h, !.ch = h]

PlayThreads ==
    << PlayConn(1), PlayConn(2), Finish(Thread("start", "s0")),
       [Thread("loop", "loop") EXCEPT !.g = 1, !.tk = TRUE] >>

PlayBase ==
    [players |-> PlayPlayers,
     channels |-> <<OpenChan, OpenChan>>,
     registry |-> (Uuid(1) :> 1) @@ (Uuid(2) :> 2),
     lobby |-> <<>>, games |-> <<NewGame(1, 2)>>, table |-> {1},
     pending |-> {}, notices |-> {}, crashed |-> FALSE,
     left |-> [conns |-> 0, starts |-> 0,
             games |-> MaxGames, watch |-> Tracked], last |-> NoReply,
     shown |-> <<>>]

\* the food of the game in play
PlayFood == Pos(7, 15)

PlayGame(snakes, food) ==
    [NewGame(1, 2) EXCEPT !.status = "playing", !.isActive = TRUE,
                          !.asked = {1, 2},
                          !.snakes = snakes, !.food = food, !.ticker = 4]

InitPlay ==
    /\ Holds([PlayBase EXCEPT
                !.games = <<PlayGame(SpawnSnakes(PlayBase, 1), PlayFood)>>,
                !.left = [conns |-> PlayConns, starts |-> MaxStarts,
             games |-> MaxGames, watch |-> Tracked]])
    /\ gmWriter = 0
    /\ thr = PlayThreads

PlayNames == {"bob", "zed"}

NextPlay ==
    \/ \E name \in PlayNames : ConnectUsername(name)
    \/ \E tok \in TokenInputs : ConnectToken(tok)
    \/ \E t \in Conns : UsernameConnFinish(t)
    \/ \E t \in Conns : TokenConnFinish(t)
    \/ \E c \in Conns : WritePumpExit(c)
    \/ \E c \in Conns : ClientClose(c)
    \/ \E c \in Conns : ReadPumpExit(c)
    \/ \E t \in Conns : RemovePlayerLocked(t)
    \/ \E t \in Conns : RLockResume(t)
    \/ \E c \in Conns : \E g \in GameIds : AddSpectator(c, g)
    \/ \E c \in Conns : \E g \in GameIds : PlayerReady(c, g)
    \/ \E t \in Conns : StartGameBegin(t)
    \/ \E t \in Conns : StartGameCount(t)
    \/ \E t \in Conns : StartGamePlay(t)

SpecPlay == InitPlay /\ [][NextPlay]_vars

----------------------------------------------------------------------------
(* Reconnects by token while the game is running                           *)

InitRebind ==
    /\ Holds([PlayBase EXCEPT
                !.games = <<PlayGame(SpawnSnakes(PlayBase, 1), PlayFood)>>,
                !.left = [conns |-> RebindConns, starts |-> 0,
             games |-> MaxGames, watch |-> Tracked]])
    /\ gmWriter = 0
    /\ thr = PlayThreads

NextRebind ==
    \/ \E tok \in TokenInputs : ConnectToken(tok)
    \/ \E t \in Conns : TokenConnFinish(t)
    \/ \E c \in Conns : WritePumpExit(c)
    \/ \E c \in Conns : ClientClose(c)
    \/ \E c \in Conns : ReadPumpExit(c)
    \/ \E t \in Conns : Tick(t)

SpecRebind == InitRebind /\ [][NextRebind]_vars

----------------------------------------------------------------------------
(* Collisions: a running game whose snakes are close to each other         *)

\* the cells of a snake from its head along the steps towards its tail
RECURSIVE Trail(_, _)
Trail(head, steps) ==
    IF steps = <<>> THEN <<head>>
    ELSE <<head>> \o Trail(NewHead(head, Head(steps)), Tail(steps))

\* tail shapes: three cells (score 0) and five cells (score 2)
Shapes ==
    { <<RIGHT, RIGHT>>, <<LEFT, LEFT>>, <<DOWN, DOWN>>, <<UP, RIGHT>>,
      <<RIGHT, DOWN, LEFT, DOWN>>, <<LEFT, UP, RIGHT, UP>>,
      <<RIGHT, RIGHT, RIGHT, RIGHT>> }

HeadsA == {Pos(1, 0)}
HeadsB == {Pos(2, 1), Pos(3, 0), Pos(0, 1), Pos(39, 1)}

\* a snake that has eaten Len(steps) - 2 times and last moved away from its
\* second cell
Grown(id, head, steps) ==
    [id |-> id, body |-> Trail(head, steps), dir |-> opposites(steps[1]),
     next |-> opposites(steps[1]), score |-> Len(steps) - 2]

Injective(s) == \A i, j \in 1..Len(s) : s[i] = s[j] => i = j

InitTick ==
    /\ \E ha \in HeadsA, hb \in HeadsB, sa \in Shapes, sb \in Shapes,
          f \in FoodCells :
         LET sn == <<Grown(Uuid(1), ha, sa), Grown(Uuid(2), hb, sb)>> IN
         /\ Injective(sn[1].body \o sn[2].body)
         /\ FoodValid(f, sn)
         /\ Holds([PlayBase EXCEPT !.games = <<PlayGame(sn, f)>>])
    /\ gmWriter = 0
    /\ thr = PlayThreads

NextTick ==
    \/ \E c \in Conns : \E g \in GameIds : \E m \in MoveStrings :
          HandlePlayerMove(c, g, m)
    \/ \E t \in Conns : Tick(t)
    \/ \E t \in Conns : EndGameBegin(t)
    \/ \E t \in Conns : RLockResume(t)

SpecTick == InitTick /\ [][NextTick]_vars

----------------------------------------------------------------------------
(* A solo game in play: the state StartSinglePlayerGame leaves behind      *)

SoloHeads == {Pos(0, 0), Pos(39, 29), Pos(20, 15)}

\* Player1 only, IsSinglePlayer, one snake
SoloGame(snake, food) ==
    [NewGame(1, 0) EXCEPT !.single = TRUE, !.status = "playing",
                          !.isActive = TRUE, !.snakes = <<snake>>,
                          !.food = food, !.ticker = 4]

InitSolo ==
    /\ \E h \in SoloHeads, sh \in Shapes, f \in FoodCells :
         LET snake == Grown(Uuid(1), h, sh) IN
         /\ FoodValid(f, <<snake>>)
         /\ Holds([PlayBase EXCEPT !.games = <<SoloGame(snake, f)>>])
    /\ gmWriter = 0
    /\ thr = PlayThreads

NextSolo ==
    \/ \E c \in Conns : \E g \in GameIds : \E m \in MoveStrings :
          HandlePlayerMove(c, g, m)
    \/ \E t \in Conns : Tick(t)
    \/ \E t \in Conns : EndGameBegin(t)
    \/ \E t \in Conns : RLockResume(t)

SpecSolo == InitSolo /\ [][NextSolo]_vars

----------------------------------------------------------------------------
(* A game with an onlooker: bob and eve are the principals of a game that  *)
(* is waiting (accepted, nobody ready) or in play, zed is connected        *)

WatchPlayers(ready) ==
    << [id |-> Uuid(1), username |-> "bob", send |-> 1, ready |-> ready],
       [id |-> Uuid(2), username |-> "eve", send |-> 2, ready |-> ready],
       [id |-> Uuid(3), username |-> "zed", send |-> 3, ready |-> FALSE] >>

WatchBase(ready) ==
    [PlayBase EXCEPT
        !.players = WatchPlayers(ready),
        !.channels = <<OpenChan, OpenChan, OpenChan>>,
        !.registry = (Uuid(1) :> 1) @@ (Uuid(2) :> 2) @@ (Uuid(3) :> 3)]

InitWatch ==
    /\ gmWriter = 0
    /\ \/ /\ Holds([WatchBase(TRUE) EXCEPT
                       !.games = <<PlayGame(SpawnSnakes(PlayBase, 1), PlayFood)>>])
          /\ thr = PlayThreads \o <<PlayConn(3)>>
       \/ /\ Holds([WatchBase(FALSE) EXCEPT !.games = <<NewGame(1, 2)>>])
          /\ thr = <<PlayConn(1), PlayConn(2), PlayConn(3)>>

NextWatch ==
    \/ \E c \in Conns : \E g \in GameIds : \E m \in MoveStrings :
          HandlePlayerMove(c, g, m)
    \/ \E c \in Conns : \E g \in GameIds : AddSpectator(c, g)
    \/ \E t \in Conns : Tick(t)

SpecWatch == InitWatch /\ [][NextWatch]_vars

----------------------------------------------------------------------------
(* Two matched players before they are ready: the state AcceptGameRequest  *)
(* leaves behind                                                           *)

ReadyPlayers ==
    << [id |-> Uuid(1), username |-> "bob", send |-> 1, ready |-> FALSE],
       [id |-> Uuid(2), username |-> "eve", send |-> 2, ready |-> FALSE] >>

\* both players in the lobby, or both after leave_lobby
ReadyLobbies == {<<1, 2>>, <<>>}

ReadyBase(conns, starts) ==
    /\ \E lb \in ReadyLobbies :
         Holds([PlayBase EXCEPT
                !.players = ReadyPlayers,
                !.lobby = lb,
                !.left = [conns |-> conns, starts |-> starts,
             games |-> MaxGames, watch |-> Tracked]])
    /\ gmWriter = 0
    /\ thr = <<PlayConn(1), PlayConn(2)>>

InitReady == ReadyBase(0, ReadyStarts)

NextReady ==
    \/ \E c \in Conns : \E g \in GameIds : PlayerReady(c, g)
    \/ \E t \in Conns : StartGameBegin(t)
    \/ \E t \in Conns : StartGameCount(t)
    \/ \E t \in Conns : StartGamePlay(t)
    \/ \E t \in Conns : RLockResume(t)
    \/ \E t \in Conns : Tick(t)

SpecReady == InitReady /\ [][NextReady]_vars

ReadyNames == {"bob"}

\* the same players while one of them may connect again by name
InitReadyFair == ReadyBase(ReadyConns, MaxStarts)

NextReadyFair ==
    \/ \E c \in Conns : \E g \in GameIds : PlayerReady(c, g)
    \/ \E t \in Conns : StartGameBegin(t)
    \/ \E t \in Conns : StartGameCount(t)
    \/ \E t \in Conns : StartGamePlay(t)
    \/ \E t \in Conns : RLockResume(t)
    \/ \E c \in Conns : WritePumpExit(c)
    \/ \E c \in Conns : ClientClose(c)
    \/ \E c \in Conns : ReadPumpExit(c)
    \/ \E t \in Conns : RemovePlayerLocked(t)
    \/ \E name \in ReadyNames : ConnectUsername(name)
    \/ \E t \in Conns : UsernameConnFinish(t)

\* every goroutine that waits for gm.Mutex gets it once it stays free: the
\* one started by `go gm.StartGame`, a RemovePlayer, and a goroutine
\* resuming at gm.Mutex.RLock(); the deferred function of a readPump whose
\* loop has ended runs
SpecReadyFair ==
    /\ InitReadyFair /\ [][NextReadyFair]_vars
    /\ WF_vars(\E t \in Conns : StartGameBegin(t))
    /\ WF_vars(\E t \in Conns : RemovePlayerLocked(t))
    /\ WF_vars(\E t \in Conns : RLockResume(t))
    /\ WF_vars(\E c \in Conns : ReadPumpExit(c))

----------------------------------------------------------------------------
(* A finished game: the state endGame leaves behind after a collision      *)

\* the snakes at the end of the game that was played, the first one the
\* winner with two points
RematchSnakes ==
    << Grown(Uuid(1), Pos(1, 0), <<RIGHT, RIGHT, RIGHT, RIGHT>>),
       Grown(Uuid(2), Pos(2, 1), <<RIGHT, RIGHT>>) >>

RematchBase ==
    LET S == [PlayBase EXCEPT
                !.games = <<PlayGame(RematchSnakes, PlayFood)>>,
                !.left = [conns |-> 0, starts |-> RematchStarts,
             games |-> MaxGames, watch |-> Tracked]]
        P == EndGamePrefix(S, 1, Uuid(1))
    IN  EndGameRest(P, 1, EndGameStage(
            broadcastToPlayers(EndGameMark(S, 1, Uuid(1)), 1, "game_over"), 1))

InitRematch ==
    /\ Holds(RematchBase)
    /\ gmWriter = 0
    /\ thr = << PlayConn(1), PlayConn(2), Finish(Thread("start", "s0")),
                Finish(Thread("loop", "loop")) >>

NextRematch ==
    \/ \E c \in Conns : \E g \in GameIds : HandleRematchRequest(c, g)
    \/ \E c \in Conns : \E g \in GameIds : HandleRematchAccept(c, g)
    \/ \E t \in Conns : RematchBegin(t)
    \/ \E t \in Conns : RematchCount(t)
    \/ \E t \in Conns : RematchPlay(t)
    \/ \E c \in Conns : \E g \in GameIds : \E m \in MoveStrings :
          HandlePlayerMove(c, g, m)
    \/ \E t \in Conns : Tick(t)

SpecRematch == InitRematch /\ [][NextRematch]_vars

----------------------------------------------------------------------------
(* A finished game one of whose players connects again by name             *)

InitGone ==
    /\ Holds([RematchBase EXCEPT
                !.left.conns = GoneConns,
                !.left.watch = Tracked \cup MatchNotices])
    /\ gmWriter = 0
    /\ thr = << PlayConn(1), PlayConn(2), Finish(Thread("start", "s0")),
                Finish(Thread("loop", "loop")) >>

NextGone ==
    \/ \E name \in ReadyNames : ConnectUsername(name)
    \/ \E t \in Conns : UsernameConnFinish(t)
    \/ \E c \in Conns : WritePumpExit(c)
    \/ \E c \in Conns : ClientClose(c)
    \/ \E c \in Conns : ReadPumpExit(c)
    \/ \E t \in Conns : RemovePlayerLocked(t)
    \/ \E c \in Conns : \E g \in GameIds : HandleRematchRequest(c, g)
    \/ \E c \in Conns : HandleRematchAbandon(c)
    \/ \E c \in Conns : \E g \in GameIds : HandleRematchAccept(c, g)
    \/ \E t \in Conns : RematchBegin(t)
    \/ \E t \in Conns : RematchCount(t)
    \/ \E t \in Conns : RematchPlay(t)

SpecGone == InitGone /\ [][NextGone]_vars

----------------------------------------------------------------------------
(* Matchmaking among three connected players in the lobby                  *)

InitMatch ==
    /\ Holds([WatchBase(FALSE) EXCEPT
                !.lobby = <<1, 2, 3>>, !.games = <<>>, !.table = {},
                !.left.games = MatchGames,
                !.left.watch = Tracked \cup MatchNotices])
    /\ gmWriter = 0
    /\ thr = <<PlayConn(1), PlayConn(2), PlayConn(3)>>

NextMatch ==
    \/ \E c \in Conns : \E id \in DOMAIN registry : SendGameRequest(c, id)
    \/ \E c \in Conns : \E id \in DOMAIN registry : CancelGameRequest(c, id)
    \/ \E c \in Conns : \E g \in GameIds : AcceptGameRequest(c, g)
    \/ \E c \in Conns : \E g \in GameIds : RejectGameRequest(c, g)
    \/ \E c \in Conns : LeaveLobby(c)

SpecMatch == InitMatch /\ [][NextMatch]_vars

----------------------------------------------------------------------------
(* Properties                                                              *)

DocumentedEdges ==
    { <<"waiting", "countdown">>, <<"countdown", "playing">>,
      <<"playing", "finished">>, <<"finished", "rematch_countdown">>,
      <<"rematch_countdown", "playing">> }

\* C1: in every step the status of every game either stays as it is or
\* changes along one of the documented edges waiting -> countdown,
\* countdown -> playing, playing -> finished, finished -> rematch_countdown,
\* rematch_countdown -> playing.
C1_StatusEdges ==
    [][\A g \in 1..Len(games) :
          \/ games'[g].status = games[g].status
          \/ <<games[g].status, games'[g].status>> \in DocumentedEdges]_vars

\* C2: no goroutine is ever waiting for gm.Mutex.RLock() while it holds
\* gm.Mutex.Lock() itself; such a wait never ends, so the write lock it
\* acquired is never released.
C2_EveryLockReleased ==
    \A t \in 1..Len(thr) : ~(thr[t].pc = "rlock" /\ gmWriter = t)

\* C3: a RemovePlayer for a principal of a playing game that can take no
\* further step has put player_disconnected on the surviving principal's
\* queue.
C3_SurvivorNotified ==
    \A t \in 1..Len(thr) :
        (thr[t].kind = "conn" /\ thr[t].branch = "active"
            /\ thr[t].pc = "rlock" /\ gmWriter = t)
        => <<thr[t].rpOther, "player_disconnected">> \in notices

\* the connection goroutine a step has started, 0 if it started none
Started == IF Len(thr') = Len(thr) + 1 /\ thr'[Len(thr')].kind = "conn"
           THEN Len(thr') ELSE 0

\* C4: a connect with a valid token whose player id has a record binds the
\* connection to the record gm.Players holds for that id; it creates no
\* player, leaves gm.Players, every id and name, and every game (slots and
\* state) as they were.
C4_RebindSameRecord ==
    [][(/\ Started # 0
        /\ thr'[Started].mode = "token"
        /\ thr'[Started].result # "INVALID_TOKEN"
        /\ \E k \in 1..Len(players) :
              players[k].id = players'[thr'[Started].p].id)
       => /\ thr'[Started].p \in 1..Len(players)
          /\ registry[players[thr'[Started].p].id] = thr'[Started].p
          /\ Len(players') = Len(players)
          /\ registry' = registry
          /\ games' = games /\ table' = table
          /\ \A k \in 1..Len(players) :
                /\ players'[k].id = players[k].id
                /\ players'[k].username = players[k].username]_vars

\* a token connection is running for a principal of the playing game
C4_Witness ==
    \E t \in 1..Len(thr) :
        /\ thr[t].kind = "conn" /\ thr[t].mode = "token"
        /\ thr[t].pc = "running"
        /\ 1 \in table /\ games[1].status = "playing"
        /\ thr[t].p \in {games[1].p1, games[1].p2}
        /\ Len(players) = Len(PlayPlayers)

\* the connections whose pumps run for player h on a channel not yet closed
LiveHandles(h) ==
    {c \in 1..Len(thr) : Running(c) /\ thr[c].p = h
                         /\ ~channels[thr[c].ch].closed}

\* C5: every player has at most one connection whose read/write pumps are
\* running on a channel that has not been closed.
C5_OneLiveHandle ==
    \A h \in 1..Len(players) : Cardinality(LiveHandles(h)) <= 1

\* the name a connect by name asks for
AskedName(T) == IF T.pc = "rpLock" THEN T.name ELSE players'[T.p].username

\* C6: a connect by name is admitted only if no player with a live
\* connection has that name (case-insensitively); a rejected one answers
\* USERNAME_EXISTS and leaves players, channels, lobby and games unchanged.
C6_LiveNameRejected ==
    [][(Started # 0 /\ thr'[Started].mode = "username")
       => IF thr'[Started].result = "USERNAME_EXISTS"
          THEN UNCHANGED <<players, channels, lobby, games, table>>
          ELSE \A h \in 1..Len(players) :
                  Live(Cur, h)
                  => ~EqualFold(players[h].username, AskedName(thr'[Started]))]_vars

\* C7: no two players with a live connection have names that are equal
\* case-insensitively.
C7_LiveNamesUnique ==
    \A h, k \in 1..Len(players) :
        (h # k /\ Live(Cur, h) /\ Live(Cur, k))
        => ~EqualFold(players[h].username, players[k].username)

\* the game is finished with that winner, or gameLoop has computed that
\* winner and is calling endGame
Decided(g, w) ==
    \/ games[g].status = "finished" /\ games[g].winner = w
    \/ \E t \in 1..Len(thr) :
          /\ thr[t].kind = "loop" /\ thr[t].g = g
          /\ thr[t].pc = "endGame" /\ thr[t].w = w

NoSelfHit(sn) == ~SelfHit(sn[1]) /\ ~SelfHit(sn[2])

SameHead(sn) == sn[1].body[1] = sn[2].body[1]

\* C8: whenever neither snake of a two-snake game is on its own body and the
\* two heads are on the same cell, the game is decided for the owner of the
\* snake with the higher score, and as a tie when the scores are equal.
C8_HeadToHead ==
    \A g \in table :
        LET sn == games[g].snakes IN
        (Len(sn) = 2 /\ NoSelfHit(sn) /\ SameHead(sn))
        => Decided(g, IF sn[1].score > sn[2].score THEN sn[1].id
                      ELSE IF sn[2].score > sn[1].score THEN sn[2].id
                      ELSE "tie")

\* a game finished by a head-to-head collision of snakes of unequal score
C8_Witness ==
    \E g \in table :
        LET sn == games[g].snakes IN
        /\ Len(sn) = 2 /\ NoSelfHit(sn) /\ SameHead(sn)
        /\ sn[1].score > sn[2].score
        /\ games[g].status = "finished" /\ games[g].winner = sn[1].id

\* C9 as stated: whenever a snake's head is on its own body, the game is
\* decided for the other principal, whatever other collisions there are.
C9_SelfCollisionStated ==
    \A g \in table :
        LET sn == games[g].snakes IN
        Len(sn) = 2 =>
            /\ SelfHit(sn[1]) => Decided(g, sn[2].id)
            /\ SelfHit(sn[2]) => Decided(g, sn[1].id)

\* C9: whenever exactly one snake's head is on its own body, the game is
\* decided for the other principal, whatever other collisions there are;
\* when both snakes are on their own bodies it is decided for the owner of
\* the second snake.
C9_SelfCollision ==
    \A g \in table :
        LET sn == games[g].snakes IN
        Len(sn) = 2 =>
            /\ SelfHit(sn[1]) => Decided(g, sn[2].id)
            /\ (SelfHit(sn[2]) /\ ~SelfHit(sn[1])) => Decided(g, sn[1].id)

\* a game finished for the first principal because the second snake alone
\* ran into itself, in a tick in which the first snake's head entered the
\* second snake's body
C9_Witness ==
    \E g \in table :
        LET sn == games[g].snakes IN
        /\ Len(sn) = 2 /\ SelfHit(sn[2]) /\ ~SelfHit(sn[1])
        /\ HeadInBody(sn[1], sn[2])
        /\ games[g].status = "finished" /\ games[g].winner = sn[1].id

\* C10 as stated: when no snake is on its own body, the heads differ and a
\* snake's head is on a non-head cell of the other snake, the game is decided
\* for the owner of the body that was entered.
C10_HeadToBodyStated ==
    \A g \in table :
        LET sn == games[g].snakes IN
        (Len(sn) = 2 /\ NoSelfHit(sn) /\ ~SameHead(sn)) =>
            /\ HeadInBody(sn[1], sn[2]) => Decided(g, sn[2].id)
            /\ HeadInBody(sn[2], sn[1]) => Decided(g, sn[1].id)

\* C10: when no snake is on its own body, the heads differ and exactly one
\* snake's head is on a non-head cell of the other snake, the game is decided
\* for the owner of the body that was entered; when each head is on the
\* other's body it is decided for the owner of the second snake.
C10_HeadToBody ==
    \A g \in table :
        LET sn == games[g].snakes IN
        (Len(sn) = 2 /\ NoSelfHit(sn) /\ ~SameHead(sn)) =>
            /\ HeadInBody(sn[1], sn[2]) => Decided(g, sn[2].id)
            /\ (HeadInBody(sn[2], sn[1]) /\ ~HeadInBody(sn[1], sn[2]))
                  => Decided(g, sn[1].id)

\* a game finished because the second snake's head alone entered the first
\* snake's body
C10_Witness ==
    \E g \in table :
        LET sn == games[g].snakes IN
        /\ Len(sn) = 2 /\ NoSelfHit(sn) /\ ~SameHead(sn)
        /\ HeadInBody(sn[2], sn[1]) /\ ~HeadInBody(sn[1], sn[2])
        /\ games[g].status = "finished" /\ games[g].winner = sn[1].id

NoReversePending(gs) ==
    \A g \in 1..Len(gs) : \A i \in 1..Len(gs[g].snakes) :
        gs[g].snakes[i].next # opposites(gs[g].snakes[i].dir)

\* C13: a player_move of a principal of an active game whose direction is the
\* reverse of its snake's current direction changes no game and sends no
\* error; before and after every step no snake's pending direction is the
\* reverse of its current direction; and a tick of gameLoop that moves the
\* snakes makes each snake's pending direction its current one, which is
\* never the reverse of the direction it had.
C13_NoReverse ==
    [][/\ \A c \in Conns, g \in GameIds, m \in MoveStrings :
            (/\ Running(c)
             /\ games[g].isActive
             /\ \E i \in 1..Len(games[g].snakes) :
                   /\ games[g].snakes[i].id = MyId(c)
                   /\ ParseDirection(m) = opposites(games[g].snakes[i].dir)
             /\ HandlePlayerMove(c, g, m))
            => (games' = games /\ last' = NoReply)
       /\ NoReversePending(games) /\ NoReversePending(games')
       /\ \A t \in Conns :
            (thr[t].kind = "loop" /\ thr'[t].ticks = thr[t].ticks + 1)
            => \A i \in 1..Len(games[thr[t].g].snakes) :
                 LET old == games[thr[t].g].snakes[i]
                     new == games'[thr[t].g].snakes[i]
                 IN  /\ new.dir = old.next
                     /\ new.dir # opposites(old.dir)
                     /\ new.body[1] = NewHead(old.body[1], old.next)]_vars

\* after a tick of the game still in play a turn is staged for a snake
C13_Witness ==
    \E t \in 1..Len(thr) :
        /\ thr[t].kind = "loop" /\ thr[t].pc = "loop" /\ thr[t].ticks >= 1
        /\ games[thr[t].g].isActive
        /\ \E i \in 1..Len(games[thr[t].g].snakes) :
              games[thr[t].g].snakes[i].next # games[thr[t].g].snakes[i].dir

\* the unit step of a direction on each axis
StepX(d) == IF d = LEFT THEN -1 ELSE IF d = RIGHT THEN 1 ELSE 0
StepY(d) == IF d = UP THEN -1 ELSE IF d = DOWN THEN 1 ELSE 0

InGrid(p) == p.x \in 0..(GRID_WIDTH - 1) /\ p.y \in 0..(GRID_HEIGHT - 1)

\* C14: in every tick that moves the snakes, for every snake the current
\* direction becomes the pending direction, the new head is the old head
\* plus one step in that direction modulo the width and the height, the new
\* head is body[0] with the old cells following it in order, and every body
\* cell is inside the grid.
C14_TickStep ==
    [][\A t \in Conns :
          (thr[t].kind = "loop" /\ thr'[t].ticks = thr[t].ticks + 1)
          => \A i \in 1..Len(games[thr[t].g].snakes) :
               LET old == games[thr[t].g].snakes[i]
                   new == games'[thr[t].g].snakes[i]
               IN  /\ new.dir = old.next
                   /\ new.body[1].x = (old.body[1].x + StepX(old.next)) % GRID_WIDTH
                   /\ new.body[1].y = (old.body[1].y + StepY(old.next)) % GRID_HEIGHT
                   /\ Len(new.body) >= Len(old.body)
                   /\ \A j \in 2..Len(new.body) : new.body[j] = old.body[j - 1]
                   /\ \A j \in 1..Len(new.body) : InGrid(new.body[j])]_vars

\* a tick has moved a snake from x = 0 to the left: its head is on the last
\* column and the cell behind it on the first
C14_Witness ==
    \E t \in 1..Len(thr) :
        /\ thr[t].kind = "loop" /\ thr[t].ticks >= 1
        /\ \E i \in 1..Len(games[thr[t].g].snakes) :
              LET sn == games[thr[t].g].snakes[i] IN
              /\ sn.dir = LEFT
              /\ sn.body[1].x = GRID_WIDTH - 1
              /\ sn.body[2].x = 0

\* every snake of a playing game has a body, of three cells plus its score
LengthIsScore(gs) ==
    \A g \in 1..Len(gs) :
        gs[g].status = "playing" =>
            \A i \in 1..Len(gs[g].snakes) :
                /\ Len(gs[g].snakes[i].body) >= 1
                /\ Len(gs[g].snakes[i].body) = 3 + gs[g].snakes[i].score

\* C15: in every tick that moves the snakes, a snake whose new head is on the
\* food cell it meets (the food of the state before, or the regenerated food
\* when a snake before it in the list ate in the same tick) gains exactly
\* one point and one body cell and the food is regenerated to another cell;
\* any other snake keeps its score and its length, its last cell dropped;
\* and in every state every snake of a playing game has a non-empty body of
\* length 3 plus its score.
C15_EatOrDrop ==
    [][/\ LengthIsScore(games) /\ LengthIsScore(games')
       /\ \A t \in Conns :
            (thr[t].kind = "loop" /\ thr'[t].ticks = thr[t].ticks + 1)
            => LET G == games[thr[t].g]
                   H == games'[thr[t].g]
                   Ate(i) == H.snakes[i].score = G.snakes[i].score + 1
               IN  /\ Len(H.snakes) = Len(G.snakes)
                   /\ \A i \in 1..Len(G.snakes) :
                        LET old == G.snakes[i]
                            new == H.snakes[i]
                        IN  /\ \/ /\ Ate(i)
                                  /\ new.body = <<new.body[1]>> \o old.body
                               \/ /\ new.score = old.score
                                  /\ new.body = <<new.body[1]>> \o
                                        SubSeq(old.body, 1, Len(old.body) - 1)
                            /\ Ate(i) => \/ new.body[1] = G.food
                                         \/ \E j \in 1..(i - 1) : Ate(j)
                            /\ (/\ new.body[1] = G.food
                                /\ \A j \in 1..(i - 1) : ~Ate(j)) => Ate(i)
                   /\ (\E i \in 1..Len(G.snakes) : Ate(i)) => H.food # G.food
                   /\ (\A i \in 1..Len(G.snakes) : ~Ate(i)) => H.food = G.food]_vars

\* a tick in which a snake has eaten: its score is odd (the game began with
\* scores 0 and 2) and its head is no longer where the food is
C15_Witness ==
    \E t \in 1..Len(thr) :
        /\ thr[t].kind = "loop" /\ thr[t].ticks >= 1
        /\ games[thr[t].g].status = "playing"
        /\ \E i \in 1..Len(games[thr[t].g].snakes) :
              LET sn == games[thr[t].g].snakes[i] IN
              /\ sn.score \in {1, 3}
              /\ Len(sn.body) = 3 + sn.score
              /\ games[thr[t].g].food # sn.body[1]

\* C16: in every state of a playing game (after the initial placement, after
\* a regeneration, after a tick) the food cell is not a cell of any snake.
C16_FoodOffSnakes ==
    \A g \in 1..Len(games) :
        games[g].status = "playing" =>
            \A i \in 1..Len(games[g].snakes) :
                \A j \in 1..Len(games[g].snakes[i].body) :
                    games[g].snakes[i].body[j] # games[g].food

\* a tick in which both snakes ate, the second one the food regenerated for
\* the first, and the food has been regenerated again
C16_Witness ==
    \E t \in 1..Len(thr) :
        /\ thr[t].kind = "loop" /\ thr[t].ticks >= 1
        /\ games[thr[t].g].status = "playing"
        /\ Len(games[thr[t].g].snakes) = 2
        /\ \A i \in 1..2 : games[thr[t].g].snakes[i].score \in {1, 3}
        /\ games[thr[t].g].snakes[1].body[1] # games[thr[t].g].snakes[2].body[1]

\* the Countdown values StartGame has broadcast for game g, in order
ShownOf(g) ==
    LET mine == SelectSeq(shown, LAMBDA e : e[1] = g)
    IN  [k \in 1..Len(mine) |-> mine[k][2]]

IsPrefix(a, b) == Len(a) <= Len(b) /\ a = SubSeq(b, 1, Len(a))

\* C17: the countdown values a game has been shown are 3, 2, 1, each once
\* and in that order, whatever player_ready messages arrive meanwhile, and a
\* game that is playing has been shown all three and has exactly its two
\* snakes, which before the first tick are the mirrored spawn snakes.
C17_CountdownOnce ==
    \A g \in 1..Len(games) :
        /\ IsPrefix(ShownOf(g), <<3, 2, 1>>)
        /\ games[g].status = "playing" =>
              /\ ShownOf(g) = <<3, 2, 1>>
              /\ Len(games[g].snakes) = 2
              /\ (\A t \in 1..Len(thr) : thr[t].kind = "loop" => thr[t].ticks = 0)
                    => games[g].snakes = SpawnSnakes(Cur, g)

\* both slots of game g hold a player whose Ready flag is set
FlagsSet(pl, gs, g) == pl[gs[g].p1].ready /\ pl[gs[g].p2].ready

\* the steps of C18: the edge waiting -> countdown is taken with both flags
\* set, and StartGame is started for a game only with both flags set
ReadyEdge ==
    /\ \A g \in 1..Len(games) :
          (games[g].status = "waiting" /\ games'[g].status = "countdown")
          => FlagsSet(players, games, g)
    /\ (Len(thr') = Len(thr) + 1 /\ thr'[Len(thr')].kind = "start")
          => FlagsSet(players', games', thr'[Len(thr')].g)

\* C18: a waiting game goes to countdown only with the ready flag of both
\* slots set, a player_ready that leaves a flag unset starts no countdown,
\* and a waiting game of the Games table with both flags set eventually
\* leaves waiting for countdown, unless it leaves the table.
C18_ReadyStartsCountdown ==
    /\ [][ReadyEdge]_vars
    /\ \A g \in 1..MaxGames :
          (g \in table /\ games[g].status = "waiting"
             /\ FlagsSet(players, games, g))
          ~> (g \notin table \/ games[g].status = "countdown")

\* C19: startRematch is started for a game only when the game is finished
\* and the principal whose rematch_accept starts it has been sent the
\* rematch_request of the other principal; and the step that puts the game
\* back to playing keeps the game and both principals in their slots and
\* resets the winner, the snakes (spawn cells, score 0) and the food.
C19_RematchConfirmed ==
    [][/\ \A c \in Conns :
            (/\ Running(c)
             /\ Len(thr') = Len(thr) + 1
             /\ thr'[Len(thr')].kind = "rematch"
             /\ HandleRematchAccept(c, thr'[Len(thr')].g))
            => /\ games[thr'[Len(thr')].g].status = "finished"
               /\ <<Me(c), "rematch_request">> \in notices
       /\ \A g \in 1..Len(games) :
            (games[g].status = "finished" /\ games'[g].status = "playing")
            => /\ g \in table'
               /\ games'[g].p1 = games[g].p1 /\ games'[g].p2 = games[g].p2
               /\ games'[g].winner = ""
               /\ games'[g].snakes = SpawnSnakes(Cur, g)
               /\ FoodValid(games'[g].food, games'[g].snakes)]_vars

\* C20: a game_request of a player for the id `to`: when no member of the
\* lobby has that id the request fails with "Player not found in lobby", and
\* when a pending edge from the requester to `to` exists it fails with "You
\* already sent a request to this player"; in both cases that error event is
\* put on the requester's Send queue (when the requester has one) and the
\* games, the Games table and the pending edges are unchanged.  Otherwise
\* exactly one game is added to the table, waiting, with the requester in
\* slot 1 and the lobby member in slot 2, exactly one pending edge
\* requester -> `to` is added, and no error event is sent.
C20_SendRequest ==
    [][\A c \in Conns : \A to \in DOMAIN registry :
          (Running(c) /\ SendGameRequest(c, to))
          => LET from == players[thr[c].p].id
                 notFound ==
                     ~\E i \in 1..Len(lobby) : players[lobby[i]].id = to
                 conflict ==
                     \E e \in pending : e[1] = to /\ e[2] = from
             IN  IF notFound \/ conflict
                 THEN /\ games' = games /\ table' = table
                      /\ pending' = pending
                      /\ (players[thr[c].p].send # 0 /\ ~crashed')
                           => last' = [to |-> thr[c].p,
                                       code |-> IF notFound
                                                THEN "Player not found in lobby"
                                                ELSE "You already sent a request to this player"]
                 ELSE /\ last' = NoReply
                      /\ Len(games') = Len(games) + 1
                      /\ table' = table \cup {Len(games')}
                      /\ Len(games') \notin table
                      /\ games'[Len(games')].status = "waiting"
                      /\ games'[Len(games')].p1 = thr[c].p
                      /\ players[games'[Len(games')].p2].id = to
                      /\ games'[Len(games')].p2 \in Range(lobby)
                      /\ pending' = pending \cup {<<to, from, Len(games')>>}
                      /\ Cardinality(pending') = Cardinality(pending) + 1
                      /\ \A g \in 1..Len(games) : games'[g] = games[g]]_vars

\* a second request to the same player has just been refused: the pending
\* edge and its waiting game are there, and the requester has the error
C20_Witness ==
    /\ last.code = "You already sent a request to this player"
    /\ \E e \in pending :
          /\ e[2] = players[last.to].id
          /\ e[3] \in table
          /\ games[e[3]].status = "waiting"
          /\ games[e[3]].p1 = last.to

\* game g is a pending request: in the table with its edge requester -> target
PendingGame(g) ==
    /\ g \in table
    /\ <<players[games[g].p2].id, players[games[g].p1].id, g>> \in pending

\* C21: after game_accept by the target of a pending game no pending edge
\* has the accepting player at either end, and both principals have been
\* sent game_accept.
C21_AcceptClearsEdges ==
    [][\A c \in Conns : \A g \in GameIds :
          (/\ Running(c)
           /\ PendingGame(g)
           /\ players[games[g].p2].id = players[thr[c].p].id
           /\ AcceptGameRequest(c, g))
          => /\ \A e \in pending' :
                  e[1] # players[thr[c].p].id /\ e[2] # players[thr[c].p].id
             /\ <<games[g].p1, "game_accept">> \in notices'
             /\ <<games[g].p2, "game_accept">> \in notices']_vars

\* C22: a game_accept or a game_reject for a pending game from a player
\* other than its target (slot 2), the requester included, changes neither
\* the games, nor the Games table, nor the pending edges.
C22_OnlyTargetDecides ==
    [][\A c \in Conns : \A g \in GameIds :
          (/\ Running(c)
           /\ PendingGame(g)
           /\ players[games[g].p2].id # players[thr[c].p].id
           /\ (AcceptGameRequest(c, g) \/ RejectGameRequest(c, g)))
          => (games' = games /\ table' = table /\ pending' = pending)]_vars

\* the requester of a pending game has just tried to accept it itself
C22_Witness ==
    /\ last.code = "You are not the target player"
    /\ \E g \in 1..Len(games) :
          /\ PendingGame(g)
          /\ games[g].p1 = last.to
          /\ games[g].p2 # last.to

\* a game_reject by the target of pending game g
RejectLeaves(c, g) ==
    (/\ Running(c)
     /\ PendingGame(g)
     /\ players[games[g].p2].id = players[thr[c].p].id
     /\ RejectGameRequest(c, g))
    => /\ g \notin table'
       /\ <<players[games[g].p2].id, players[games[g].p1].id, g>> \notin pending'
       /\ <<games[g].p1, "game_reject">> \in notices'

\* a game_request_cancel by the requester of pending game g
CancelLeaves(c, g) ==
    (/\ Running(c)
     /\ PendingGame(g)
     /\ players[games[g].p1].id = players[thr[c].p].id
     /\ CancelGameRequest(c, players[games[g].p2].id))
    => /\ g \notin table'
       /\ <<players[games[g].p2].id, players[games[g].p1].id, g>> \notin pending'
       /\ <<games[g].p2, "game_request_cancel">> \in notices'

\* C23: after game_reject by the target, or game_request_cancel by the
\* requester, of a pending game, the game is not in the Games table, the edge
\* requester -> target is not pending, and the counterpart has been sent the
\* notice: game_reject to the requester, game_request_cancel to the target.
C23_WithdrawalNotified ==
    [][\A c \in Conns : \A g \in GameIds :
          RejectLeaves(c, g) /\ CancelLeaves(c, g)]_vars

\* C24: when RemovePlayer has run for a player, no pending edge of a game
\* that has the player as a principal is left, and that game is not in the
\* Games table.
C24_RemoveDropsEdge ==
    [][\A t \in Conns :
          (/\ thr[t].kind = "conn"
           /\ thr[t].pc \in {"rpLock", "rlock"}
           /\ thr'[t].pc \notin {"rpLock", "rlock"})
          => \A e \in pending :
               (/\ thr[t].rpId \in {e[1], e[2]}
                /\ IsPrincipal(Cur, e[3], thr[t].rpId))
               => (e \notin pending' /\ e[3] \notin table')]_vars

\* C25: a RemovePlayer for a principal of a game: when the status of the game
\* is waiting or countdown the game leaves the Games table and the other
\* principal (if it has a Send queue) is sent game_request_cancel; for a
\* game of any other status no game_request_cancel is sent.
C25_RemoveBranches ==
    [][\A t \in Conns :
          (/\ thr[t].kind = "conn"
           /\ thr[t].pc = "rpLock"
           /\ thr'[t].pc # "rpLock")
          => \A g \in table :
               IsPrincipal(Cur, g, thr[t].rpId)
               => LET other == IF players[games[g].p1].id = thr[t].rpId
                               THEN games[g].p2 ELSE games[g].p1
                  IN  IF games[g].status \in {"waiting", "countdown"}
                      THEN /\ g \notin table'
                           /\ players[other].send # 0
                                => <<other, "game_request_cancel">> \in notices'
                      ELSE <<other, "game_request_cancel">>
                               \notin (notices' \ notices)]_vars

\* C26: when the read loop of a connection has ended while its player, a
\* member of the lobby, is still bound to that connection (Send is the
\* channel of that connection), the player eventually leaves the lobby.
C26_LostIsRemoved ==
    \A c \in 1..2 : \A h \in 1..2 :
        (/\ thr[c].kind = "conn" /\ thr[c].pc = "closed"
         /\ thr[c].p = h
         /\ players[h].send # 0 /\ players[h].send = thr[c].ch
         /\ InLobby(Cur, h))
        ~> ~InLobby(Cur, h)

----------------------------------------------------------------------------
(* Three connected players that join and leave the lobby, invite each      *)
(* other and start solo games                                              *)

\* start_single_player -> StartSinglePlayerGame, up to the lobby broadcast
\* of its RemoveFromLobby; the game_update of each countdown second and the
\* game_start go to the player alone
StartSinglePlayerGame(c) ==
    /\ ~crashed /\ Running(c) /\ gmWriter = 0
    /\ Len(games) < left.games
    /\ \E f \in FoodCells :
         LET g == Len(games) + 1
             snake == [id |-> MyId(c),
                       body |-> <<Pos(20, 15), Pos(19, 15), Pos(18, 15)>>,
                       dir |-> RIGHT, next |-> RIGHT, score |-> 0]
             game == [NewGame(Me(c), 0) EXCEPT
                        !.single = TRUE, !.status = "playing",
                        !.isActive = TRUE, !.snakes = <<snake>>, !.food = f]
             S1 == [Cur EXCEPT !.games = Append(@, game), !.table = @ \cup {g}]
             S2 == sendMessage(sendMessage(S1, Me(c), "game_update"),
                               Me(c), "game_start")
         IN  /\ FoodValid(f, <<snake>>)
             /\ Commit(RemoveFromLobby(S2, MyId(c)))
    /\ Quiet

NextLobby ==
    \/ \E c \in Conns : JoinLobby(c)
    \/ \E c \in Conns : StartSinglePlayerGame(c)
    \/ \E c \in Conns : LeaveLobby(c)
    \/ \E c \in Conns : \E id \in DOMAIN registry : SendGameRequest(c, id)
    \/ \E c \in Conns : \E id \in DOMAIN registry : CancelGameRequest(c, id)

SpecLobby == InitMatch /\ [][NextLobby]_vars

\* the members of the old listing that are still listed, in the old order
Kept(old, new) == SelectSeq(old, LAMBDA h : h \in Range(new))

\* C27: every step leaves the members that stay in the listing in their
\* order and puts the members it adds after them; no two entries of the
\* listing have the same id; join_lobby by a member and leave_lobby by a
\* non-member leave the listing as it is and answer no error.
C27_LobbyOrder ==
    [][/\ IsPrefix(Kept(lobby, lobby'), lobby')
       /\ \A i \in (Len(Kept(lobby, lobby')) + 1)..Len(lobby') :
              lobby'[i] \notin Range(lobby)
       /\ \A i, j \in 1..Len(lobby') :
              i # j => players'[lobby'[i]].id # players'[lobby'[j]].id
       /\ \A c \in Conns :
              /\ (/\ Running(c) /\ InLobby(Cur, Me(c))
                  /\ (lobby' # lobby \/ last' # NoReply)) => ~JoinLobby(c)
              /\ (/\ Running(c) /\ ~InLobby(Cur, Me(c))
                  /\ (lobby' # lobby \/ last' # NoReply)) => ~LeaveLobby(c)
              /\ (/\ Running(c) /\ ~InLobby(Cur, Me(c))
                  /\ lobby' # Append(lobby, Me(c))) => ~JoinLobby(c)
              /\ (/\ Running(c) /\ InLobby(Cur, Me(c))
                  /\ lobby' # SelectSeq(lobby, LAMBDA h : h # Me(c)))
                     => ~LeaveLobby(c)
      ]_vars

\* a member that left and joined again is listed after one that stayed
C27_Witness ==
    /\ Len(lobby) >= 2
    /\ \E i, j \in 1..Len(lobby) : i < j /\ lobby[i] > lobby[j]

----------------------------------------------------------------------------
(* The lobby while the client of player 1 has stopped reading               *)

InitFull ==
    /\ Holds([WatchBase(FALSE) EXCEPT
                !.lobby = <<1, 2, 3>>, !.games = <<>>, !.table = {},
                !.channels[1].stalled = TRUE,
                !.left.watch = Tracked \cup MatchNotices])
    /\ gmWriter = 0
    /\ thr = <<PlayConn(1), PlayConn(2), PlayConn(3)>>

SpecFull == InitFull /\ [][NextLobby]_vars

\* C28: the lobby broadcast is produced whatever gm.Games holds: the process
\* has not panicked while a solo game that is not finished is in gm.Games.
C28_BroadcastWithSolo ==
    ~(NilPlayer2(Cur) /\ crashed)

QueueFull(h) ==
    /\ players[h].send # 0
    /\ ~channels[players[h].send].closed
    /\ channels[players[h].send].n >= QueueCap

\* C29: a lobby_status broadcast that meets a member whose Send queue is
\* full closes that member's channel.
C29_OverflowTearsDown ==
    [][\A c \in Conns : \A h \in 1..Len(players) :
          (/\ Running(c) /\ ~InLobby(Cur, Me(c))
           /\ h # Me(c) /\ InLobby(Cur, h) /\ QueueFull(h)
           /\ JoinLobby(c))
          => channels'[players[h].send].closed
      ]_vars

----------------------------------------------------------------------------
(* A game with an onlooker whose three players send player_ready and        *)
(* rematch messages                                                         *)

InitOnlooker ==
    /\ Holds([WatchBase(FALSE) EXCEPT
                !.games = <<NewGame(1, 2)>>,
                !.left.starts = ReadyStarts,
                !.left.watch = Tracked \cup {"game_update"}])
    /\ gmWriter = 0
    /\ thr = <<PlayConn(1), PlayConn(2), PlayConn(3)>>

NextOnlooker ==
    \/ \E c \in Conns : \E g \in GameIds : AddSpectator(c, g)
    \/ \E c \in Conns : \E g \in GameIds : PlayerReady(c, g)
    \/ \E c \in Conns : \E g \in GameIds : HandleRematchRequest(c, g)
    \/ \E c \in Conns : \E g \in GameIds : HandleRematchAccept(c, g)
    \/ \E t \in Conns : StartGameBegin(t)
    \/ \E t \in Conns : StartGameCount(t)
    \/ \E t \in Conns : StartGamePlay(t)
    \/ \E t \in Conns : RematchBegin(t)
    \/ \E t \in Conns : RematchCount(t)
    \/ \E t \in Conns : RematchPlay(t)
    \/ \E t \in Conns : Tick(t)

SpecOnlooker == InitOnlooker /\ [][NextOnlooker]_vars

\* C30: a player_ready, rematch_request or rematch_accept for a game sent by
\* a player that is not a principal of it is answered with an error to the
\* sender, changes neither the game nor any player's ready flag, sends the
\* principals no game_update and starts no countdown.
C30_OutsiderRefused ==
    [][\A c \in Conns : \A g \in GameIds :
          (/\ Running(c) /\ g \in table
           /\ ~IsPrincipal(Cur, g, MyId(c))
           /\ \/ PlayerReady(c, g)
              \/ HandleRematchRequest(c, g)
              \/ HandleRematchAccept(c, g))
          => /\ last'.to = Me(c) /\ last'.code # ""
             /\ games' = games /\ players' = players
             /\ notices' = notices /\ thr' = thr
      ]_vars

----------------------------------------------------------------------------
(* A game in play one of whose players connects again by name while the    *)
(* snakes are about to collide                                             *)

InitRace ==
    /\ \E hb \in HeadsB, sb \in Shapes :
         LET sn == <<Grown(Uuid(1), Pos(1, 0), <<LEFT, LEFT>>),
                     Grown(Uuid(2), hb, sb)>> IN
         /\ Injective(sn[1].body \o sn[2].body)
         /\ Holds([PlayBase EXCEPT !.games = <<PlayGame(sn, PlayFood)>>,
                                   !.left.conns = RaceConns])
    /\ gmWriter = 0
    /\ thr = PlayThreads

NextRace ==
    \/ \E name \in ReadyNames : ConnectUsername(name)
    \/ \E t \in Conns : UsernameConnFinish(t)
    \/ \E c \in Conns : WritePumpExit(c)
    \/ \E c \in Conns : ClientClose(c)
    \/ \E c \in Conns : ReadPumpExit(c)
    \/ \E t \in Conns : RemovePlayerLocked(t)
    \/ \E t \in Conns : Tick(t)
    \/ \E t \in Conns : EndGameBegin(t)
    \/ \E t \in Conns : RLockResume(t)

SpecRace == InitRace /\ [][NextRace]_vars

\* C31: once a game is finished, its winner, snakes and food stay as they
\* are for as long as it stays finished.
C31_FinishedOnce ==
    [][\A g \in 1..Len(games) :
          (games[g].status = "finished" /\ games'[g].status = "finished")
          => /\ games'[g].winner = games[g].winner
             /\ games'[g].snakes = games[g].snakes
             /\ games'[g].food = games[g].food
      ]_vars

\* the game loops of game g whose ticker has not been stopped
LiveLoops(g) ==
    {t \in 1..Len(thr) : /\ thr[t].kind = "loop" /\ thr[t].pc = "loop"
                         /\ thr[t].tk /\ thr[t].g = g}

\* C32: no game has two game loops whose tickers are both running.
C32_OneLoop ==
    \A g \in 1..Len(games) : Cardinality(LiveLoops(g)) <= 1

\* the other principal of game g, seen from player h
Opponent(g, h) ==
    IF games[g].p1 = h THEN games[g].p2 ELSE games[g].p1

\* C33: when HandleRematchRequest deletes a game, what it checked still
\* holds: the game is in gm.Games and the sender's opponent has no Send.
C33_CheckedStillHolds ==
    [][\A c \in Conns :
          (/\ thr[c].kind = "conn" /\ thr[c].pc = "abandon"
           /\ thr'[c].pc # "abandon")
          => /\ thr[c].g \in table
             /\ players[Opponent(thr[c].g, thr[c].p)].send = 0
      ]_vars

----------------------------------------------------------------------------
(* bob and eve in play and zed in the lobby: invitations, player_ready and *)
(* a reconnect by name                                                     *)

InitMulti ==
    /\ Holds([WatchBase(TRUE) EXCEPT
                !.lobby = <<3>>,
                !.games = <<PlayGame(SpawnSnakes(PlayBase, 1), PlayFood)>>,
                !.left = [conns |-> MultiConns, starts |-> MaxStarts,
                          games |-> MultiGames, watch |-> Tracked]])
    /\ gmWriter = 0
    /\ thr = PlayThreads \o <<PlayConn(3)>>

NextMulti ==
    \/ \E c \in Conns : \E id \in DOMAIN registry : SendGameRequest(c, id)
    \/ \E c \in Conns : \E g \in GameIds : AcceptGameRequest(c, g)
    \/ \E c \in Conns : \E g \in GameIds : PlayerReady(c, g)
    \/ \E t \in Conns : StartGameBegin(t)
    \/ \E t \in Conns : StartGameCount(t)
    \/ \E t \in Conns : StartGamePlay(t)
    \/ \E t \in Conns : RLockResume(t)
    \/ \E name \in ReadyNames : ConnectUsername(name)
    \/ \E t \in Conns : UsernameConnFinish(t)
    \/ \E c \in Conns : WritePumpExit(c)
    \/ \E c \in Conns : ClientClose(c)
    \/ \E c \in Conns : ReadPumpExit(c)
    \/ \E t \in Conns : RemovePlayerLocked(t)

SpecMulti == InitMulti /\ [][NextMulti]_vars

\* the ids of the principals of game g
Principals(g) ==
    {players[games[g].p1].id} \cup
    (IF games[g].p2 = 0 THEN {} ELSE {players[games[g].p2].id})

RunningStatus == {"countdown", "playing", "rematch_countdown"}

\* C34: two different games of gm.Games that are both in countdown or in
\* play have no principal in common.
C34_OneRunningGame ==
    \A g1, g2 \in table :
        (/\ g1 # g2
         /\ games[g1].status \in RunningStatus
         /\ games[g2].status \in RunningStatus)
        => Principals(g1) \cap Principals(g2) = {}

\* C35: a game that is no longer in gm.Games is left as it is: no step
\* changes its status, countdown, snakes or food, and no step starts a game
\* loop for it.
C35_RemovedStaysStill ==
    [][\A g \in 1..Len(games) :
          (g \notin table /\ g \notin table')
          => /\ games'[g] = games[g]
             /\ \A t \in (Len(thr) + 1)..Len(thr') :
                   ~(thr'[t].kind = "loop" /\ thr'[t].g = g)
      ]_vars


\* C36: no message is sent on an outbound queue that has been closed: while
\* a player's Send is the closed old queue of a reconnection, no broadcast
\* panics on it.
C36_NoSendOnClosed ==
    ~(/\ crashed
      /\ \E h \in 1..Len(players) :
            /\ players[h].send # 0
            /\ channels[players[h].send].closed)


\* C37: when RemovePlayer has returned for a player, no game of the Games
\* table has that player as a principal or as a spectator.
C37_RemovedFromAllGames ==
    [][\A t \in Conns :
          (/\ thr[t].kind = "conn"
           /\ thr[t].pc \in {"rpLock", "rlock"}
           /\ thr'[t].pc \notin {"rpLock", "rlock"})
          => \A g \in table' :
               thr[t].rpId \notin
                 {players'[h].id :
                    h \in ({games'[g].p1, games'[g].p2} \ {0})
                           \cup games'[g].spectators}]_vars


\* the pending edge e is backed by its game: the game is in the Games table,
\* is waiting, and has the requester as Player1 and the target as Player2
Backed(S, e) ==
    /\ e[3] \in S.table
    /\ S.games[e[3]].status = "waiting"
    /\ S.players[S.games[e[3]].p1].id = e[2]
    /\ S.games[e[3]].p2 # 0
    /\ S.players[S.games[e[3]].p2].id = e[1]

\* C38: pending edges and games stay consistent: after every step each
\* pending edge requester -> target is backed by a waiting game of the Games
\* table with exactly these principals, and of the edges a step removes at
\* most one (the edge of the accepted game) leaves its game in the table.
C38_EdgesBacked ==
    [][/\ \A e \in pending' :
             Backed([games |-> games', table |-> table',
                     players |-> players'], e)
       /\ Cardinality({e \in pending \ pending' : e[3] \in table'}) <= 1
      ]_vars

\* C39: no game of the Games table has one player in both principal slots,
\* and no pending edge leads from a player to that same player.
C39_NoSelfGame ==
    /\ \A g \in table : games[g].p1 # games[g].p2
    /\ \A e \in pending : e[1] # e[2]


\* C40: a game of two principals goes to countdown only when each of them
\* has sent player_ready for this game since its flags were last cleared; a
\* Ready flag set for another game or left over from an earlier start does
\* not count.
C40_ReadyForThisGame ==
    [][\A g \in 1..Len(games) :
          (/\ games[g].p2 # 0
           /\ games[g].status # "countdown"
           /\ games'[g].status = "countdown")
          => {games[g].p1, games[g].p2} \subseteq games[g].asked]_vars

============================================================================
